---- MODULE Spec2Model ----
(***************************************************************************)
(* Data-access layer of the GitHub front end: the IndexedDB store          *)
(* (src/lib/storage.ts), the API client (src/lib/github-api.ts, class      *)
(* GitHubClient) and the token login (validateToken, loginWithToken,       *)
(* logout, isLoggedIn).  A second specification, ViewSpec, is the list    *)
(* view above the client (components IssuesList and PullRequestsList).    *)
(*                                                                         *)
(* Every async function is cut at its awaits: one action is the code that  *)
(* runs between two awaits of one invocation.  Procs are the concurrently  *)
(* running invocations (JavaScript tasks on the single thread).            *)
(***************************************************************************)
EXTENDS Integers, Sequences, FiniteSets, TLC

VARIABLES
    now,            \* Date.now(), in milliseconds
    dbPromise,      \* storage.ts: let dbPromise ("null", "pending", "open", "rejected")
    auth,           \* object store "auth", slot "current": None or Some(AuthData)
    cache,          \* object store "cache": key -> None or Some(CacheEntry)
    rateLimitInfo,  \* GitHubClient.rateLimitInfo: None or Some(RateLimitInfo)
    pc,             \* per invocation: the await it is suspended at
    call,           \* per invocation: the operation called and its arguments
    loc,            \* per invocation: its locals, what it did so far, its outcome
    calls,          \* number of invocations started so far
    route,          \* the mounted list view and its useParams(): owner, repo
    ui,             \* the list view's React state as set: its useState cells with
                    \* every update queued so far applied
    rendered,       \* the list view's state as React last rendered it: what the
                    \* DOM shows and the closures of the handlers hold
    timer,          \* the pending setTimeouts of the debounce effect, oldest first
    inflight,       \* the list view's fetches awaiting their answer, oldest first
    db,             \* the database "github-frontend" on disk: its version and schema
    authCtx         \* AuthProvider, Header and the TokenLogin forms: their useState
                    \* cells as set and as last rendered, and the position of each task

clientVars == <<now, dbPromise, auth, cache, rateLimitInfo, pc, call, loc, calls>>

viewVars == <<route, ui, rendered, timer, inflight, authCtx>>

vars == <<now, dbPromise, auth, cache, rateLimitInfo, pc, call, loc, calls,
          route, ui, rendered, timer, inflight, db, authCtx>>

-----------------------------------------------------------------------------
(* Bounds of the model *)

MaxCalls == 2

Procs == {"p1", "p2"}

-----------------------------------------------------------------------------
(* Optional values: null / undefined is None, a value v is Some(v) *)

None == << >>
Some(v) == <<v>>

-----------------------------------------------------------------------------
(* Strings that the code inspects are sequences of characters *)

\* The tokens typed into the login form
RawTokens == { << >>, <<" ">>, <<"\f", "\t">>, <<"a">>, <<"U+00A0", "a", " ">>, <<"b", "\n">> }

\* The characters String.prototype.trim removes and parseInt skips: the
\* WhiteSpace and LineTerminator code points (tab, vertical tab, form feed,
\* space, no-break space, byte order mark, the space separators; line feed,
\* carriage return, line and paragraph separator).  A character outside
\* ASCII is written as its code point.
IsSpace(c) ==
    c \in {"\t", "U+000B", "\f", " ", "U+00A0", "U+FEFF",
           "U+1680", "U+2000", "U+2001", "U+2002", "U+2003", "U+2004", "U+2005",
           "U+2006", "U+2007", "U+2008", "U+2009", "U+200A", "U+202F", "U+205F",
           "U+3000",
           "\n", "\r", "U+2028", "U+2029"}

RECURSIVE TrimStart(_)
TrimStart(s) ==
    IF s # << >> /\ IsSpace(Head(s)) THEN TrimStart(Tail(s)) ELSE s

RECURSIVE TrimEnd(_)
TrimEnd(s) ==
    IF s # << >> /\ IsSpace(s[Len(s)]) THEN TrimEnd(SubSeq(s, 1, Len(s) - 1)) ELSE s

\* A login that would use the token as typed (a faulty variant of Trim)
TrimNothing(s) == s

\* String.prototype.trim
Trim(s) == TrimEnd(TrimStart(s))

\* JavaScript truthiness of a string-or-null value
Truthy(o) == o # None /\ o[1] # << >>

Digits == <<"0", "1", "2", "3", "4", "5", "6", "7", "8", "9">>

IsDigit(c) == \E i \in 1..10 : Digits[i] = c

DigitVal(c) == (CHOOSE i \in 1..10 : Digits[i] = c) - 1

RECURSIVE DigitsPrefix(_)
DigitsPrefix(s) ==
    IF s # << >> /\ IsDigit(Head(s)) THEN <<Head(s)>> \o DigitsPrefix(Tail(s)) ELSE << >>

RECURSIVE DecValue(_)
DecValue(ds) ==
    IF ds = << >> THEN 0
    ELSE DecValue(SubSeq(ds, 1, Len(ds) - 1)) * 10 + DigitVal(ds[Len(ds)])

\* A JavaScript number: NaN or an integer
NaN == [nan |-> TRUE, val |-> 0]
Num(n) == [nan |-> FALSE, val |-> n]

\* parseInt(s, 10): leading white space and a sign are skipped, the longest
\* prefix of digits is read, and NaN is the result when there is none
ParseInt(s) ==
    LET t == TrimStart(s)
        signed == t # << >> /\ Head(t) \in {"+", "-"}
        ds == DigitsPrefix(IF signed THEN Tail(t) ELSE t)
    IN  IF ds = << >> THEN NaN
        ELSE IF signed /\ Head(t) = "-" THEN Num(0 - DecValue(ds))
        ELSE Num(DecValue(ds))

-----------------------------------------------------------------------------
(* The typed surface of GitHubClient and the auth functions *)

RequestOps == {"getAuthenticatedUser", "getRepository", "searchIssues", "searchPullRequests"}
AuthOps == {"loginWithToken", "logout", "isLoggedIn", "validateToken"}
ReadmeOps == {"getReadmeWithContent"}

DefaultCacheTtl == 300000
UserCacheTtl == 60000

Endpoint(op) ==
    CASE op = "getAuthenticatedUser" -> "/user"
      [] op = "getRepository" -> "/repos/o/r"
      [] op = "getReadmeWithContent" -> "/repos/o/r/readme"
      [] op = "searchIssues" -> "/search/issues?q=repo%3Ao%2Fr+type%3Aissue+state%3Aopen+x&page=1&per_page=30"
      [] op = "searchPullRequests" -> "/search/issues?q=repo%3Ao%2Fr+type%3Apr+state%3Aopen+x&page=1&per_page=30"

Endpoints == {Endpoint(op) : op \in RequestOps \cup ReadmeOps}

\* the endpoint argument of request() in invocation c: the one a list view
\* built from its arguments, else the one of the operation
EndpointOf(c) == IF "endpoint" \in DOMAIN c THEN c.endpoint ELSE Endpoint(c.op)

\* the useCache argument each operation passes to request()
UseCache(op) == op \notin {"searchIssues", "searchPullRequests"}

\* the cacheTtl argument each operation passes to request()
CacheTtl(op) == IF op = "getAuthenticatedUser" THEN UserCacheTtl ELSE DefaultCacheTtl

\* const cacheKey = `github:${endpoint}`
CacheKey(endpoint) == "github:" \o endpoint

CacheKeys == {CacheKey(e) : e \in Endpoints}

-----------------------------------------------------------------------------
(* What the network can answer *)

\* The JSON value null as a decoded body: response.json() on the text "null"
JsonNull == [kind |-> "null"]

\* A JSON object as the decoded body of a success
PayloadObject(id) == [kind |-> "object", id |-> id]

\* The bodies of a success: two payloads, and null
Payloads == {PayloadObject("v1"), PayloadObject("v2"), JsonNull}

Str(s) == Some(s)

H60 == <<"6", "0">>
H59 == <<"5", "9">>
HReset == <<"1", "7", "0", "0", "0", "0", "0", "0", "0", "0">>
H1 == <<"1">>
HBad == <<"x">>

Headers(l, r, t, u) == [limit |-> l, remaining |-> r, reset |-> t, used |-> u]

HeaderSets ==
    { Headers(Str(H60), Str(H59), Str(HReset), Str(H1)),     \* all four, well-formed
      Headers(Str(H60), Str(H59), Str(HReset), None),        \* x-ratelimit-used missing
      Headers(Str(HBad), Str(H59), Str(HReset), Str(H1)),    \* x-ratelimit-limit malformed
      Headers(Str(H60), Str(<< >>), Str(HReset), Str(H1)),   \* x-ratelimit-remaining empty
      Headers(None, None, None, None) }                      \* no rate-limit headers

OkStatuses == {200}
ErrStatuses == {401, 403, 404}

\* A faulty variant of response.ok: no upper end
IsOkNoUpperEnd(status) == status >= 200

\* A faulty variant of response.ok: 200 itself left out
IsOkAbove200(status) == status > 200 /\ status <= 299

\* response.ok
IsOk(status) == status >= 200 /\ status <= 299

BodyEmpty == [kind |-> "empty"]
BodyText == [kind |-> "text"]
BodyNull == JsonNull
BodyObject(m, d) == [kind |-> "object", message |-> m, documentation_url |-> d]

ErrBodies ==
    { BodyEmpty, BodyText, BodyNull,
      BodyObject(None, None),
      BodyObject(Some("Not Found"), None),
      BodyObject(Some("Bad credentials"), Some("https://docs.github.com/rest")) }

NoHeaders == Headers(None, None, None, None)

\* The answers the model draws from: every header set on a success and on one
\* error, every error body on every error status
Responses ==
    [status : OkStatuses, headers : HeaderSets, body : Payloads]
    \cup [status : {403}, headers : HeaderSets, body : {BodyObject(Some("Not Found"), None)}]
    \cup [status : ErrStatuses, headers : {NoHeaders}, body : ErrBodies]

-----------------------------------------------------------------------------
(* GitHubClient *)

\* updateRateLimitInfo(headers): the new value of this.rateLimitInfo
UpdateRateLimitInfo(old, h) ==
    IF Truthy(h.limit) /\ Truthy(h.remaining) /\ Truthy(h.reset) /\ Truthy(h.used)
    THEN Some([limit |-> ParseInt(h.limit[1]),
               remaining |-> ParseInt(h.remaining[1]),
               reset |-> ParseInt(h.reset[1]),
               used |-> ParseInt(h.used[1])])
    ELSE old

\* await response.json().catch(() => ({})): the body of an error response
ErrorData(body) ==
    IF body.kind \in {"empty", "text"} THEN BodyObject(None, None) ELSE body

\* `HTTP ${response.status}`
HttpMessage(status) == "HTTP " \o ToString(status)

\* errorData.message || `HTTP ${response.status}`
ErrorMessage(errorData, status) ==
    IF errorData.message # None /\ errorData.message[1] # ""
    THEN errorData.message[1]
    ELSE HttpMessage(status)

\* what request() throws on a response that is not ok
ThrownOnError(resp) ==
    LET errorData == ErrorData(resp.body)
    IN  IF errorData.kind = "null"
        THEN [type |-> "TypeError"]    \* reading .message of null
        ELSE [type |-> "ApiError",
              message |-> ErrorMessage(errorData, resp.status),
              status |-> resp.status,
              documentation_url |-> errorData.documentation_url]

BearerPrefix == <<"B", "e", "a", "r", "e", "r", " ">>

\* A faulty variant: the header set without the if (token) around it
AuthorizationHeaderAlways(token) ==
    Some(BearerPrefix \o (IF token = None THEN <<"n", "u", "l", "l">> ELSE token[1]))

\* the Authorization header request() sends for the token getAuthToken() gave
AuthorizationHeader(token) ==
    IF Truthy(token) THEN Some(BearerPrefix \o token[1]) ELSE None

-----------------------------------------------------------------------------
(* storage.ts *)

\* A faulty variant: the expiry check with >= for >
IsExpiredAtBoundary(entry, t) == t >= entry.expiresAt

\* getCachedResponse: if (Date.now() > entry.expiresAt)
IsExpired(entry, t) == t > entry.expiresAt

\* A faulty variant: the TTL put as the expiry, the clock forgotten
NewCacheEntryNoClock(key, data, ttlMs, t) == [key |-> key, data |-> data, expiresAt |-> ttlMs]

\* cacheApiResponse: the entry it puts
NewCacheEntry(key, data, ttlMs, t) == [key |-> key, data |-> data, expiresAt |-> t + ttlMs]

\* A faulty variant: IDBObjectStore.add, which keeps the entry already stored
DbPutIfAbsent(store, entry) ==
    IF store[entry.key] = None THEN [store EXCEPT ![entry.key] = Some(entry)] ELSE store

\* db.put("cache", entry): the entry is stored under entry.key, the store's
\* keyPath, in place of the one stored under that key
DbPut(store, entry) == [store EXCEPT ![entry.key] = Some(entry)]

\* A faulty variant: the token type put where the token belongs
NewAuthDataTypeAsToken(accessToken, tokenType, scope, t) ==
    [accessToken |-> <<"b", "e", "a", "r", "e", "r">>, tokenType |-> tokenType,
     scope |-> scope, createdAt |-> t]

\* saveAuthToken: the record it puts
NewAuthData(accessToken, tokenType, scope, t) ==
    [accessToken |-> accessToken, tokenType |-> tokenType, scope |-> scope, createdAt |-> t]

\* getAuthToken: what it returns when the database is open
GetAuthToken == IF auth = None THEN None ELSE Some(auth[1].accessToken)

\* A faulty variant: getDB without its if (!dbPromise), opening on every call
GetDBReopens == "pending"

\* A faulty variant: getDB opening again once the open has failed
GetDBRetriesFailedOpen == IF dbPromise \in {"null", "rejected"} THEN "pending" ELSE dbPromise

\* getDB(), the synchronous part: the first caller starts the one open
GetDB == IF dbPromise = "null" THEN "pending" ELSE dbPromise

DB_VERSION == 2

\* A database of the origin as openDB finds it: its version, its object
\* stores and the indexes of its "cache" store; oldVersion is the argument
\* the upgrade callback last ran with in this page, if it ran
Database(version, objectStoreNames, indexNames) ==
    [version |-> version, objectStoreNames |-> objectStoreNames,
     indexNames |-> indexNames, oldVersion |-> None]

\* No database yet: openDB creates it at version 0 and upgrades it
FreshDatabase == Database(0, {}, {})

\* A faulty variant: the upgrade without the removal of the old store
UpgradeKeepingPkce(d, oldVersion) ==
    [version |-> DB_VERSION,
     objectStoreNames |-> d.objectStoreNames \cup {"auth", "cache"},
     indexNames |-> IF "cache" \in d.objectStoreNames THEN d.indexNames ELSE {"by-expiry"},
     oldVersion |-> Some(oldVersion)]

\* upgrade(db, oldVersion): "auth" and "cache" (with its index "by-expiry")
\* are created when the database has none, "pkce" is deleted when the
\* database comes from a version below 2 and has one
Upgrade(d, oldVersion) ==
    LET withAuth == d.objectStoreNames \cup {"auth"}
        withCache == withAuth \cup {"cache"}
        names == IF oldVersion < 2 /\ "pkce" \in withCache
                 THEN withCache \ {"pkce"} ELSE withCache
    IN  [version |-> DB_VERSION,
         objectStoreNames |-> names,
         indexNames |-> IF "cache" \in d.objectStoreNames THEN d.indexNames ELSE {"by-expiry"},
         oldVersion |-> Some(oldVersion)]

\* openDB(DB_NAME, DB_VERSION, {upgrade}): the callback runs when the
\* database on disk is older than DB_VERSION
OpenDB(d) == IF d.version < DB_VERSION THEN Upgrade(d, d.version) ELSE d

\* A faulty variant: the key range without its upper bound
InUpperBoundOpen(x, upper) == x < upper

\* IDBKeyRange.upperBound(upper) includes x
InUpperBound(x, upper) == x <= upper

\* clearExpiredCache: the store after the cursor over the index "by-expiry",
\* range upperBound(t), has deleted every entry it visits
ClearExpired(store, t) ==
    [k \in DOMAIN store |->
        IF store[k] # None /\ InUpperBound(store[k][1].expiresAt, t) THEN None ELSE store[k]]

\* ... and the keys of the entries the cursor visited
Visited(store, t) ==
    {k \in DOMAIN store : store[k] # None /\ InUpperBound(store[k][1].expiresAt, t)}

StorageError == [type |-> "StorageError"]
FetchFailure == [type |-> "FetchFailure"]

-----------------------------------------------------------------------------
(* Invocations *)

NoCall == [op |-> "none", token |-> << >>]

NoLoc ==
    [ sent |-> << >>,       \* the network calls issued: each its Authorization header
      response |-> None,    \* request: const response = await fetch(...), while its
                            \* body is being read
      did |-> << >>,        \* the store operations completed and network calls issued
      data |-> None,        \* request: const data = await response.json();
                            \* clearExpiredCache: the keys its cursor visited
      status |-> None,      \* request: response.status
      stamp |-> None,       \* cacheApiResponse, saveAuthToken: the Date.now() read
                            \* after await getDB(), when the record is built and
                            \* db.put is called; clearExpiredCache: const now =
                            \* Date.now(), read before the cursor is opened
      out |-> None,         \* the outcome: Some([kind |-> "return" | "throw", value |-> ...])
      result |-> None ]     \* getReadmeWithContent: its own outcome

Returned(v) == Some([kind |-> "return", value |-> v])
Thrown(e) == Some([kind |-> "throw", value |-> e])

\* The useState initial values of a list view
InitialUi ==
    [ issues |-> << >>,
      state |-> "loading",
      error |-> None,
      issueState |-> "open",
      currentPage |-> 1,
      hasMore |-> FALSE,
      loadingMore |-> FALSE,
      searchQuery |-> << >>,
      debouncedSearchQuery |-> << >> ]

\* The TokenLogin forms of the page: the one of the home page's card and the
\* one of the header's login modal
Forms == {"home", "modal"}

\* The useState initial values of AuthProvider, of Header and of the TokenLogin
\* forms: the cells a render reads
InitialAuthState ==
    [ isAuthenticated |-> FALSE,
      isLoading |-> TRUE,
      user |-> None,
      showLogin |-> FALSE,                              \* Header: useState(false)
      tokenLoginIsLoading |-> [f \in Forms |-> FALSE] ] \* TokenLogin: useState(false),
                                                        \* one cell per form

\* ... as set, with what React last rendered of them, before the provider's
\* mount effect has run
InitialAuthContext ==
    [ isAuthenticated |-> InitialAuthState.isAuthenticated,
      isLoading |-> InitialAuthState.isLoading,
      user |-> InitialAuthState.user,
      showLogin |-> InitialAuthState.showLogin,
      tokenLoginIsLoading |-> InitialAuthState.tokenLoginIsLoading,
      rendered |-> InitialAuthState,          \* the cells as React last rendered them
      mounted |-> FALSE,                      \* the mount effect has run
      task |-> [p \in Procs |-> "none"],      \* the await at which a function of the
                                              \* provider or of a form holds invocation p
      caller |-> [p \in Procs |-> "none"],    \* who awaits refreshUser: checkAuth or handleSubmit
      form |-> [p \in Procs |-> "none"] ]     \* the form whose handleSubmit holds invocation
                                              \* p ("gone" once that form is unmounted)

\* No list view is mounted, the provider has not run
NoView ==
    /\ route = [list |-> "none", valid |-> FALSE]
    /\ ui = InitialUi
    /\ rendered = InitialUi
    /\ timer = << >>
    /\ inflight = << >>
    /\ authCtx = InitialAuthContext

\* The client and the store as the page loads
ClientInit ==
    /\ now = 0
    /\ dbPromise = "null"
    /\ auth = None
    /\ cache = [k \in CacheKeys |-> None]
    /\ rateLimitInfo = None
    /\ pc = [p \in Procs |-> "idle"]
    /\ call = [p \in Procs |-> NoCall]
    /\ loc = [p \in Procs |-> NoLoc]
    /\ calls = 0
    /\ db = FreshDatabase

Init == ClientInit /\ NoView

\* An invocation that has its outcome hands it to its caller before anything
\* else runs: the return is part of the step that produced the outcome
Returning == \E q \in Procs : pc[q] = "done"

\* The instants at which the model looks at the clock: each TTL, to the
\* millisecond, after an entry written at 0 or at DefaultCacheTtl
Times == {0, UserCacheTtl, DefaultCacheTtl, DefaultCacheTtl + UserCacheTtl}

\* Time passes
Tick ==
    /\ ~Returning
    /\ \E t \in Times : t > now /\ now' = t
    /\ UNCHANGED <<dbPromise, auth, cache, rateLimitInfo, pc, call, loc, calls>>

\* cacheApiResponse and saveAuthToken after await getDB(): the record is
\* built with Date.now() and handed to db.put, which is then awaited
Stamped(l, t) == [l EXCEPT !.stamp = Some(t)]

\* openDB resolves, the upgrade callback having run if the database was
\* older; an object store it created is empty.  The functions suspended at
\* await getDB() go on to their store request; those that write build their
\* record now, and a sweep reads the clock
DBOpens ==
    /\ ~Returning
    /\ dbPromise = "pending"
    /\ dbPromise' = "open"
    /\ db' = OpenDB(db)
    /\ auth' = IF "auth" \in db.objectStoreNames THEN auth ELSE None
    /\ cache' = IF "cache" \in db.objectStoreNames THEN cache ELSE [k \in DOMAIN cache |-> None]
    /\ loc' = [p \in Procs |-> IF pc[p] \in {"cachePut", "authPut", "sweep"}
                                THEN Stamped(loc[p], now) ELSE loc[p]]
    /\ UNCHANGED <<now, rateLimitInfo, pc, call, calls>>

\* openDB rejects (storage unavailable); the rejected promise stays in dbPromise
DBOpenFails ==
    /\ ~Returning
    /\ dbPromise = "pending"
    /\ dbPromise' = "rejected"
    /\ UNCHANGED <<now, auth, cache, rateLimitInfo, pc, call, loc, calls>>

DBSettled == dbPromise \in {"open", "rejected"}

\* Invocations are interchangeable: a new one takes the first free slot
FreeSlot(p) == ~Returning /\ pc[p] = "idle" /\ (p = "p1" \/ pc["p1"] # "idle")

\* request(), from its call to its first await: getCachedResponse(cacheKey)
\* when useCache, getAuthToken() otherwise; both start with getDB()
Request(p, op) ==
    /\ FreeSlot(p)
    /\ call' = [call EXCEPT ![p] = [op |-> op, token |-> << >>]]
    /\ loc' = [loc EXCEPT ![p] = NoLoc]
    /\ pc' = [pc EXCEPT ![p] = IF UseCache(op) THEN "cacheGet" ELSE "authGet"]
    /\ dbPromise' = GetDB
    /\ UNCHANGED <<now, auth, cache, rateLimitInfo>>

\* ... as one of the MaxCalls invocations of a run
StartRequest(p, op) ==
    /\ calls < MaxCalls
    /\ calls' = calls + 1
    /\ Request(p, op)

\* getCachedResponse after await getDB(): db.get, then the expiry check;
\* it returns entry.data, or null when there is no entry.  request() returns
\* what it got at once if (cached !== null): a live entry whose data is null
\* is taken for a miss, and stays in the store.
CacheGet(p) ==
    /\ ~Returning
    /\ pc[p] = "cacheGet"
    /\ DBSettled
    /\ LET key == CacheKey(EndpointOf(call[p]))
           entry == cache[key]
       IN  IF dbPromise = "rejected"
           THEN /\ loc' = [loc EXCEPT ![p].out = Thrown(StorageError)]
                /\ pc' = [pc EXCEPT ![p] = "done"]
           ELSE IF entry = None
           THEN /\ loc' = [loc EXCEPT ![p].did = @ \o <<"cacheGet">>]
                /\ pc' = [pc EXCEPT ![p] = "authGet"]
           ELSE IF IsExpired(entry[1], now)
           THEN /\ loc' = [loc EXCEPT ![p].did = @ \o <<"cacheGet">>]
                /\ pc' = [pc EXCEPT ![p] = "cacheDelete"]
           ELSE IF entry[1].data = JsonNull
           THEN /\ loc' = [loc EXCEPT ![p].did = @ \o <<"cacheGet">>]
                /\ pc' = [pc EXCEPT ![p] = "authGet"]
           ELSE /\ loc' = [loc EXCEPT ![p].did = @ \o <<"cacheGet">>,
                                      ![p].out = Returned(entry[1].data)]
                /\ pc' = [pc EXCEPT ![p] = "done"]
    /\ UNCHANGED <<now, dbPromise, auth, cache, rateLimitInfo, call, calls>>

\* getCachedResponse: await db.delete("cache", key), then return null;
\* request() goes on to getAuthToken()
CacheDelete(p) ==
    /\ ~Returning
    /\ pc[p] = "cacheDelete"
    /\ cache' = [cache EXCEPT ![CacheKey(EndpointOf(call[p]))] = None]
    /\ loc' = [loc EXCEPT ![p].did = @ \o <<"cacheDelete">>]
    /\ pc' = [pc EXCEPT ![p] = "authGet"]
    /\ UNCHANGED <<now, dbPromise, auth, rateLimitInfo, call, calls>>

\* getAuthToken after await getDB(): db.get("auth", "current").  Called on
\* its own it returns the token; isLoggedIn returns token !== null; request()
\* builds the headers and calls fetch
AuthGet(p) ==
    /\ ~Returning
    /\ pc[p] = "authGet"
    /\ DBSettled
    /\ IF dbPromise = "rejected"
       THEN /\ loc' = [loc EXCEPT ![p].out = Thrown(StorageError)]
            /\ pc' = [pc EXCEPT ![p] = "done"]
       ELSE LET token == GetAuthToken
            IN  IF call[p].op = "isLoggedIn"
                THEN /\ loc' = [loc EXCEPT ![p].did = @ \o <<"authGet">>,
                                           ![p].out = Returned(token # None)]
                     /\ pc' = [pc EXCEPT ![p] = "done"]
                ELSE IF call[p].op = "getAuthToken"
                THEN /\ loc' = [loc EXCEPT ![p].did = @ \o <<"authGet">>,
                                           ![p].out = Returned(token)]
                     /\ pc' = [pc EXCEPT ![p] = "done"]
                ELSE /\ loc' = [loc EXCEPT ![p].did = @ \o <<"authGet", "fetch">>,
                                           ![p].sent = @ \o <<AuthorizationHeader(token)>>]
                     /\ pc' = [pc EXCEPT ![p] = "fetch"]
    /\ UNCHANGED <<now, dbPromise, auth, cache, rateLimitInfo, call, calls>>

\* fetch rejects: request() rejects with it
FetchFails(p) ==
    /\ ~Returning
    /\ pc[p] = "fetch"
    /\ loc' = [loc EXCEPT ![p].out = Thrown(FetchFailure)]
    /\ pc' = [pc EXCEPT ![p] = "done"]
    /\ UNCHANGED <<now, dbPromise, auth, cache, rateLimitInfo, call, calls>>

\* fetch resolves with the response's status and headers:
\* updateRateLimitInfo(response.headers), then request() awaits
\* response.json() on either side of if (!response.ok)
FetchResolves(p, resp) ==
    /\ ~Returning
    /\ pc[p] = "fetch"
    /\ rateLimitInfo' = UpdateRateLimitInfo(rateLimitInfo, resp.headers)
    /\ loc' = [loc EXCEPT ![p].status = Some(resp.status),
                          ![p].response = Some(resp)]
    /\ pc' = [pc EXCEPT ![p] = "json"]
    /\ UNCHANGED <<now, dbPromise, auth, cache, call, calls>>

\* response.json() settles, the body having arrived: the error is thrown, or
\* the data returned; with useCache request() goes on to cacheApiResponse,
\* which starts with getDB() and, the database being open, builds the entry
\* (expiresAt: Date.now() + ttlMs) and calls db.put
JsonResolves(p) ==
    /\ ~Returning
    /\ pc[p] = "json"
    /\ LET resp == loc[p].response[1]
       IN  IF ~IsOk(resp.status)
           THEN /\ loc' = [loc EXCEPT ![p].response = None,
                                      ![p].out = Thrown(ThrownOnError(resp))]
                /\ pc' = [pc EXCEPT ![p] = "done"]
                /\ UNCHANGED dbPromise
           ELSE IF UseCache(call[p].op)
           THEN /\ loc' = [loc EXCEPT ![p].response = None,
                                      ![p].data = Some(resp.body),
                                      ![p].stamp = IF dbPromise = "open" THEN Some(now) ELSE None]
                /\ pc' = [pc EXCEPT ![p] = "cachePut"]
                /\ dbPromise' = GetDB
           ELSE /\ loc' = [loc EXCEPT ![p].response = None,
                                      ![p].data = Some(resp.body),
                                      ![p].out = Returned(resp.body)]
                /\ pc' = [pc EXCEPT ![p] = "done"]
                /\ UNCHANGED dbPromise
    /\ UNCHANGED <<now, auth, cache, rateLimitInfo, call, calls>>

\* cacheApiResponse: await db.put("cache", entry) completes and the entry,
\* as it was built, is in the store; request() then returns the data
CachePut(p) ==
    /\ ~Returning
    /\ pc[p] = "cachePut"
    /\ DBSettled
    /\ LET key == CacheKey(EndpointOf(call[p]))
           data == loc[p].data[1]
       IN  IF dbPromise = "rejected"
           THEN /\ loc' = [loc EXCEPT ![p].out = Thrown(StorageError)]
                /\ UNCHANGED cache
           ELSE /\ cache' = DbPut(cache, NewCacheEntry(key, data, CacheTtl(call[p].op), loc[p].stamp[1]))
                /\ loc' = [loc EXCEPT ![p].did = @ \o <<"cachePut">>,
                                      ![p].out = Returned(data)]
    /\ pc' = [pc EXCEPT ![p] = "done"]
    /\ UNCHANGED <<now, dbPromise, auth, rateLimitInfo, call, calls>>

LoginResult(success, error) == [success |-> success, error |-> error]

\* loginWithToken, from its call to its first await: the token is trimmed;
\* an empty one is refused at once, any other is sent by validateToken
LoginWithToken(p, raw) ==
    /\ FreeSlot(p)
    /\ call' = [call EXCEPT ![p] = [op |-> "loginWithToken", token |-> raw]]
    /\ LET trimmedToken == Trim(raw)
       IN  IF trimmedToken = << >>
           THEN /\ loc' = [loc EXCEPT ![p] = [NoLoc EXCEPT
                              !.out = Returned(LoginResult(FALSE, Some("Please enter a token")))]]
                /\ pc' = [pc EXCEPT ![p] = "done"]
           ELSE /\ loc' = [loc EXCEPT ![p] = [NoLoc EXCEPT
                              !.did = <<"fetch">>,
                              !.sent = <<Some(BearerPrefix \o trimmedToken)>>]]
                /\ pc' = [pc EXCEPT ![p] = "probe"]
    /\ UNCHANGED <<now, dbPromise, auth, cache, rateLimitInfo>>

StartLogin(p, raw) ==
    /\ calls < MaxCalls
    /\ calls' = calls + 1
    /\ LoginWithToken(p, raw)

InvalidToken == LoginResult(FALSE, Some("Invalid token. Please check and try again."))

\* The tokens validateToken is called with on its own
ProbeTokens == { <<"a">>, <<" ", "a">> }

\* validateToken called on its own, up to its await fetch: the token is sent
\* as it was given
StartValidate(p, token) ==
    /\ FreeSlot(p)
    /\ calls < MaxCalls
    /\ calls' = calls + 1
    /\ call' = [call EXCEPT ![p] = [op |-> "validateToken", token |-> token]]
    /\ loc' = [loc EXCEPT ![p] = [NoLoc EXCEPT !.did = <<"fetch">>,
                                               !.sent = <<Some(BearerPrefix \o token)>>]]
    /\ pc' = [pc EXCEPT ![p] = "probe"]
    /\ UNCHANGED <<now, dbPromise, auth, cache, rateLimitInfo>>

\* validateToken: fetch rejects, the catch returns false; loginWithToken
\* returns the error
ProbeFails(p) ==
    /\ ~Returning
    /\ pc[p] = "probe"
    /\ loc' = [loc EXCEPT ![p].out =
                  IF call[p].op = "validateToken" THEN Returned(FALSE)
                  ELSE Returned(InvalidToken)]
    /\ pc' = [pc EXCEPT ![p] = "done"]
    /\ UNCHANGED <<now, dbPromise, auth, cache, rateLimitInfo, call, calls>>

\* A faulty variant: a probe whose answer is passed to updateRateLimitInfo
ProbeResolvesUpdatingRateLimit(p, resp) ==
    /\ ~Returning
    /\ pc[p] = "probe"
    /\ rateLimitInfo' = UpdateRateLimitInfo(rateLimitInfo, resp.headers)
    /\ IF call[p].op = "validateToken"
       THEN /\ loc' = [loc EXCEPT ![p].out = Returned(IsOk(resp.status))]
            /\ pc' = [pc EXCEPT ![p] = "done"]
            /\ UNCHANGED dbPromise
       ELSE IF IsOk(resp.status)
       THEN /\ pc' = [pc EXCEPT ![p] = "authPut"]
            /\ dbPromise' = GetDB
            /\ loc' = [loc EXCEPT ![p].stamp = IF dbPromise = "open" THEN Some(now) ELSE None]
       ELSE /\ loc' = [loc EXCEPT ![p].out = Returned(InvalidToken)]
            /\ pc' = [pc EXCEPT ![p] = "done"]
            /\ UNCHANGED dbPromise
    /\ UNCHANGED <<now, auth, cache, call, calls>>

\* validateToken: fetch resolves, response.ok is returned; loginWithToken
\* returns the error or goes on to saveAuthToken, which starts with getDB()
\* and, when the database is open, builds authData (createdAt: Date.now())
\* and calls db.put
ProbeResolves(p, resp) ==
    /\ ~Returning
    /\ pc[p] = "probe"
    /\ IF call[p].op = "validateToken"
       THEN /\ loc' = [loc EXCEPT ![p].out = Returned(IsOk(resp.status))]
            /\ pc' = [pc EXCEPT ![p] = "done"]
            /\ UNCHANGED dbPromise
       ELSE IF IsOk(resp.status)
       THEN /\ pc' = [pc EXCEPT ![p] = "authPut"]
            /\ dbPromise' = GetDB
            /\ loc' = [loc EXCEPT ![p].stamp = IF dbPromise = "open" THEN Some(now) ELSE None]
       ELSE /\ loc' = [loc EXCEPT ![p].out = Returned(InvalidToken)]
            /\ pc' = [pc EXCEPT ![p] = "done"]
            /\ UNCHANGED dbPromise
    /\ UNCHANGED <<now, auth, cache, rateLimitInfo, call, calls>>

\* saveAuthToken: await db.put("auth", authData, "current") completes and
\* authData, as it was built, is in the store; loginWithToken then returns
\* success
AuthPut(p) ==
    /\ ~Returning
    /\ pc[p] = "authPut"
    /\ DBSettled
    /\ IF dbPromise = "rejected"
       THEN /\ loc' = [loc EXCEPT ![p].out = Thrown(StorageError)]
            /\ UNCHANGED auth
       ELSE /\ auth' = Some(NewAuthData(Trim(call[p].token), "bearer", "", loc[p].stamp[1]))
            /\ loc' = [loc EXCEPT ![p].did = @ \o <<"authPut">>,
                                  ![p].out = Returned(LoginResult(TRUE, None))]
    /\ pc' = [pc EXCEPT ![p] = "done"]
    /\ UNCHANGED <<now, dbPromise, cache, rateLimitInfo, call, calls>>

\* logout and isLoggedIn, from the call to the first await: clearAuthToken
\* and getAuthToken both start with getDB()
AuthOp(p, op) ==
    /\ FreeSlot(p)
    /\ call' = [call EXCEPT ![p] = [op |-> op, token |-> << >>]]
    /\ loc' = [loc EXCEPT ![p] = NoLoc]
    /\ pc' = [pc EXCEPT ![p] = IF op = "logout" THEN "authDelete" ELSE "authGet"]
    /\ dbPromise' = GetDB
    /\ UNCHANGED <<now, auth, cache, rateLimitInfo>>

StartAuthOp(p, op) ==
    /\ calls < MaxCalls
    /\ calls' = calls + 1
    /\ AuthOp(p, op)

\* clearAuthToken after await getDB(): db.delete("auth", "current")
AuthDelete(p) ==
    /\ ~Returning
    /\ pc[p] = "authDelete"
    /\ DBSettled
    /\ IF dbPromise = "rejected"
       THEN /\ loc' = [loc EXCEPT ![p].out = Thrown(StorageError)]
            /\ UNCHANGED auth
       ELSE /\ auth' = None
            /\ loc' = [loc EXCEPT ![p].did = @ \o <<"authDelete">>,
                                  ![p].out = Returned(None)]
    /\ pc' = [pc EXCEPT ![p] = "done"]
    /\ UNCHANGED <<now, dbPromise, cache, rateLimitInfo, call, calls>>

\* The caller has the outcome; the invocation is over
Return(p) ==
    /\ pc[p] = "done"
    /\ call[p].op \in ReadmeOps => loc[p].result # None
    /\ pc' = [pc EXCEPT ![p] = "idle"]
    /\ call' = [call EXCEPT ![p] = NoCall]
    /\ loc' = [loc EXCEPT ![p] = NoLoc]
    /\ UNCHANGED <<now, dbPromise, auth, cache, rateLimitInfo, calls>>

Next ==
    \/ Tick /\ UNCHANGED <<viewVars, db>>
    \/ DBOpens /\ UNCHANGED viewVars
    \/ DBOpenFails /\ UNCHANGED <<viewVars, db>>
    \/ \E p \in Procs, op \in RequestOps : StartRequest(p, op) /\ UNCHANGED <<viewVars, db>>
    \/ \E p \in Procs : CacheGet(p) /\ UNCHANGED <<viewVars, db>>
    \/ \E p \in Procs : CacheDelete(p) /\ UNCHANGED <<viewVars, db>>
    \/ \E p \in Procs : AuthGet(p) /\ UNCHANGED <<viewVars, db>>
    \/ \E p \in Procs : FetchFails(p) /\ UNCHANGED <<viewVars, db>>
    \/ \E p \in Procs, resp \in Responses : FetchResolves(p, resp) /\ UNCHANGED <<viewVars, db>>
    \/ \E p \in Procs : JsonResolves(p) /\ UNCHANGED <<viewVars, db>>
    \/ \E p \in Procs : CachePut(p) /\ UNCHANGED <<viewVars, db>>
    \/ \E p \in Procs, raw \in RawTokens : StartLogin(p, raw) /\ UNCHANGED <<viewVars, db>>
    \/ \E p \in Procs, token \in ProbeTokens : StartValidate(p, token) /\ UNCHANGED <<viewVars, db>>
    \/ \E p \in Procs : ProbeFails(p) /\ UNCHANGED <<viewVars, db>>
    \/ \E p \in Procs, resp \in Responses : ProbeResolves(p, resp) /\ UNCHANGED <<viewVars, db>>
    \/ \E p \in Procs : AuthPut(p) /\ UNCHANGED <<viewVars, db>>
    \/ \E p \in Procs, op \in {"logout", "isLoggedIn"} : StartAuthOp(p, op) /\ UNCHANGED <<viewVars, db>>
    \/ \E p \in Procs : AuthDelete(p) /\ UNCHANGED <<viewVars, db>>
    \/ \E p \in Procs : Return(p) /\ UNCHANGED <<viewVars, db>>

Spec == Init /\ [][Next]_vars

-----------------------------------------------------------------------------
(* The store on its own: a page that opens a database left by earlier       *)
(* sessions and maintains the cache (clearExpiredCache, clearCache)         *)

\* The databases a page load can find: none, one of version 1 (which had the
\* "pkce" store), one of version 2
Databases ==
    { FreshDatabase,
      Database(1, {"pkce"}, {}),
      Database(1, {"auth", "pkce"}, {}),
      Database(1, {"auth", "cache", "pkce"}, {"by-expiry"}),
      Database(1, {"auth", "cache"}, {"by-expiry"}),
      Database(2, {"auth", "cache"}, {"by-expiry"}) }

\* The entries earlier requests left under a key: written at 0 or at
\* DefaultCacheTtl with the TTL of the operation
StoredEntries(op) ==
    { NewCacheEntry(CacheKey(Endpoint(op)), PayloadObject("v1"), CacheTtl(op), t) : t \in {0, DefaultCacheTtl} }

StoredCaches ==
    { c \in [CacheKeys -> {None} \cup {Some(e) : e \in UNION {StoredEntries(op) : op \in RequestOps}}] :
        \A op \in RequestOps \cup ReadmeOps :
            LET k == CacheKey(Endpoint(op))
            IN  c[k] # None => (UseCache(op) /\ c[k][1] \in StoredEntries(op)) }

StoreOps == {"clearExpiredCache", "clearCache"}

StoreInit ==
    /\ now \in Times
    /\ dbPromise = "null"
    /\ db \in Databases
    /\ auth \in IF "auth" \in db.objectStoreNames
                 THEN {None, Some(NewAuthData(<<"a">>, "bearer", "", 0))}
                 ELSE {None}
    /\ cache \in IF "cache" \in db.objectStoreNames
                  THEN StoredCaches
                  ELSE {[k \in CacheKeys |-> None]}
    /\ rateLimitInfo = None
    /\ pc = [p \in Procs |-> "idle"]
    /\ call = [p \in Procs |-> NoCall]
    /\ loc = [p \in Procs |-> NoLoc]
    /\ calls = 0
    /\ NoView

\* clearExpiredCache and clearCache, from the call to their first store
\* request: await getDB() and, the database being open, for the sweep the
\* transaction, const now = Date.now() and await index.openCursor(...)
StartStoreOp(p, op) ==
    /\ FreeSlot(p)
    /\ calls < MaxCalls
    /\ calls' = calls + 1
    /\ call' = [call EXCEPT ![p] = [op |-> op, token |-> << >>]]
    /\ loc' = [loc EXCEPT ![p] = IF op = "clearExpiredCache" /\ dbPromise = "open"
                                  THEN Stamped(NoLoc, now) ELSE NoLoc]
    /\ pc' = [pc EXCEPT ![p] = IF op = "clearExpiredCache" THEN "sweep" ELSE "clear"]
    /\ dbPromise' = GetDB
    /\ UNCHANGED <<now, auth, cache, rateLimitInfo>>

\* clearExpiredCache from await index.openCursor(IDBKeyRange.upperBound(now))
\* on: one readwrite transaction on "cache" in which the cursor deletes the
\* entries up to the value of Date.now() read before the cursor was opened;
\* other operations on the store wait for the transaction
ClearExpiredCache(p) ==
    /\ ~Returning
    /\ pc[p] = "sweep"
    /\ DBSettled
    /\ IF dbPromise = "rejected"
       THEN /\ loc' = [loc EXCEPT ![p].out = Thrown(StorageError)]
            /\ UNCHANGED cache
       ELSE /\ cache' = ClearExpired(cache, loc[p].stamp[1])
            /\ loc' = [loc EXCEPT ![p].did = @ \o <<"sweep">>,
                                  ![p].data = Some(Visited(cache, loc[p].stamp[1])),
                                  ![p].out = Returned(None)]
    /\ pc' = [pc EXCEPT ![p] = "done"]
    /\ UNCHANGED <<now, dbPromise, auth, rateLimitInfo, call, calls>>

\* clearCache after await getDB(): db.clear("cache")
ClearCache(p) ==
    /\ ~Returning
    /\ pc[p] = "clear"
    /\ DBSettled
    /\ IF dbPromise = "rejected"
       THEN /\ loc' = [loc EXCEPT ![p].out = Thrown(StorageError)]
            /\ UNCHANGED cache
       ELSE /\ cache' = [k \in DOMAIN cache |-> None]
            /\ loc' = [loc EXCEPT ![p].did = @ \o <<"clear">>,
                                  ![p].out = Returned(None)]
    /\ pc' = [pc EXCEPT ![p] = "done"]
    /\ UNCHANGED <<now, dbPromise, auth, rateLimitInfo, call, calls>>

StoreNext ==
    \/ Tick /\ UNCHANGED <<viewVars, db>>
    \/ DBOpens /\ UNCHANGED viewVars
    \/ DBOpenFails /\ UNCHANGED <<viewVars, db>>
    \/ \E p \in Procs, op \in StoreOps : StartStoreOp(p, op) /\ UNCHANGED <<viewVars, db>>
    \/ \E p \in Procs : ClearExpiredCache(p) /\ UNCHANGED <<viewVars, db>>
    \/ \E p \in Procs : ClearCache(p) /\ UNCHANGED <<viewVars, db>>
    \/ \E p \in Procs : Return(p) /\ UNCHANGED <<viewVars, db>>

StoreSpec == StoreInit /\ [][StoreNext]_vars

-----------------------------------------------------------------------------
(* getReadmeWithContent: getReadme through request(), then the decoding of  *)
(* the content.  A JavaScript string is the sequence of its code points; a  *)
(* string the code takes apart is the sequence of its characters.           *)

\* The printable ASCII characters, from code 32 (the grave accent, which a
\* TLA+ string cannot hold, by its name)
Ascii ==
    <<" ", "!", "\"", "#", "$", "%", "&", "'", "(", ")", "*", "+", ",", "-", ".", "/",
       "0", "1", "2", "3", "4", "5", "6", "7", "8", "9", ":", ";", "<", "=", ">", "?",
       "@", "A", "B", "C", "D", "E", "F", "G", "H", "I", "J", "K", "L", "M", "N", "O",
       "P", "Q", "R", "S", "T", "U", "V", "W", "X", "Y", "Z", "[", "\\", "]", "^", "_",
       "GRAVE", "a", "b", "c", "d", "e", "f", "g", "h", "i", "j", "k", "l", "m", "n", "o",
       "p", "q", "r", "s", "t", "u", "v", "w", "x", "y", "z", "{", "|", "}", "~">>

\* c.charCodeAt(0) of a printable ASCII character
CharCode(c) == 31 + (CHOOSE i \in 1..Len(Ascii) : Ascii[i] = c)

Base64Alphabet ==
    <<"A", "B", "C", "D", "E", "F", "G", "H", "I", "J", "K", "L", "M", "N", "O", "P",
       "Q", "R", "S", "T", "U", "V", "W", "X", "Y", "Z", "a", "b", "c", "d", "e", "f",
       "g", "h", "i", "j", "k", "l", "m", "n", "o", "p", "q", "r", "s", "t", "u", "v",
       "w", "x", "y", "z", "0", "1", "2", "3", "4", "5", "6", "7", "8", "9", "+", "/">>

IsBase64Char(c) == \E i \in 1..64 : Base64Alphabet[i] = c

Base64Val(c) == (CHOOSE i \in 1..64 : Base64Alphabet[i] = c) - 1

\* The ASCII white space atob removes from its argument
IsAsciiWhitespace(c) == c \in {" ", "\t", "\n", "\f", "\r"}

\* What a function that may throw gives: its value, or the error thrown
Ok(v) == [ok |-> TRUE, value |-> v]
Fail(e) == [ok |-> FALSE, error |-> e]

\* The bytes of a run of base64 characters: 4 characters give 3 bytes, a
\* rest of 2 gives 1 and a rest of 3 gives 2, the bits left over dropped
RECURSIVE Base64Bytes(_)
Base64Bytes(s) ==
    IF Len(s) >= 4
    THEN LET n == (Base64Val(s[1]) * 262144) + (Base64Val(s[2]) * 4096)
                  + (Base64Val(s[3]) * 64) + Base64Val(s[4])
         IN  <<n \div 65536, (n \div 256) % 256, n % 256>> \o Base64Bytes(SubSeq(s, 5, Len(s)))
    ELSE IF Len(s) = 3
    THEN LET n == (Base64Val(s[1]) * 4096) + (Base64Val(s[2]) * 64) + Base64Val(s[3])
         IN  <<n \div 1024, (n \div 4) % 256>>
    ELSE IF Len(s) = 2
    THEN LET n == (Base64Val(s[1]) * 64) + Base64Val(s[2])
         IN  <<n \div 16>>
    ELSE << >>

\* atob(s), the forgiving base64 decoding: white space is removed, one or two
\* "=" are taken off a length that is a multiple of 4; a length of 1 modulo 4
\* and a character outside the alphabet throw.  The result is a binary
\* string: the sequence of its char codes, each a byte
Atob(s) ==
    LET stripped == SelectSeq(s, LAMBDA c : ~IsAsciiWhitespace(c))
        n == Len(stripped)
        unpadded ==
            IF n > 0 /\ n % 4 = 0 /\ stripped[n] = "="
            THEN (IF stripped[n - 1] = "=" THEN SubSeq(stripped, 1, n - 2)
                  ELSE SubSeq(stripped, 1, n - 1))
            ELSE stripped
    IN  IF Len(unpadded) % 4 = 1 \/ \E i \in 1..Len(unpadded) : ~IsBase64Char(unpadded[i])
        THEN Fail([type |-> "InvalidCharacterError"])
        ELSE Ok(Base64Bytes(unpadded))

HexDigits == <<"0", "1", "2", "3", "4", "5", "6", "7", "8", "9", "a", "b", "c", "d", "e", "f">>

UpperHexDigits == <<"0", "1", "2", "3", "4", "5", "6", "7", "8", "9", "A", "B", "C", "D", "E", "F">>

IsHexDigit(c) == \E i \in 1..16 : HexDigits[i] = c \/ UpperHexDigits[i] = c

HexVal(c) == (CHOOSE i \in 1..16 : HexDigits[i] = c \/ UpperHexDigits[i] = c) - 1

\* "%" + ("00" + c.charCodeAt(0).toString(16)).slice(-2), for each char code
RECURSIVE PercentEscape(_)
PercentEscape(codes) ==
    IF codes = << >> THEN << >>
    ELSE <<"%", HexDigits[((Head(codes) \div 16) % 16) + 1], HexDigits[(Head(codes) % 16) + 1]>>
         \o PercentEscape(Tail(codes))

\* The number of bytes of the UTF-8 sequence a byte starts; 0 when it starts none
Utf8Length(b) ==
    IF b < 128 THEN 1
    ELSE IF b >= 192 /\ b < 224 THEN 2
    ELSE IF b >= 224 /\ b < 240 THEN 3
    ELSE IF b >= 240 /\ b < 248 THEN 4
    ELSE 0

IsContinuation(b) == b >= 128 /\ b < 192

\* The code point of a UTF-8 sequence of n bytes
Utf8Value(bs) ==
    IF Len(bs) = 1 THEN bs[1]
    ELSE IF Len(bs) = 2 THEN ((bs[1] % 32) * 64) + (bs[2] % 64)
    ELSE IF Len(bs) = 3 THEN ((bs[1] % 16) * 4096) + ((bs[2] % 64) * 64) + (bs[3] % 64)
    ELSE ((bs[1] % 8) * 262144) + ((bs[2] % 64) * 4096) + ((bs[3] % 64) * 64) + (bs[4] % 64)

\* The sequence is the (shortest) encoding of a code point that is no surrogate
IsValidUtf8(bs) ==
    LET v == Utf8Value(bs)
    IN  CASE Len(bs) = 1 -> TRUE
          [] Len(bs) = 2 -> v >= 128
          [] Len(bs) = 3 -> v >= 2048 /\ ~(v >= 55296 /\ v <= 57343)
          [] OTHER -> v >= 65536 /\ v <= 1114111

\* The byte of the escape at the head of s, when s starts with "%" and two
\* hexadecimal digits
HasEscape(s) == Len(s) >= 3 /\ s[1] = "%" /\ IsHexDigit(s[2]) /\ IsHexDigit(s[3])

EscapeByte(s) == (HexVal(s[2]) * 16) + HexVal(s[3])

\* decodeURIComponent(s): a character other than "%" stands for itself; an
\* escape below 0x80 is its byte; an escape from 0x80 starts a UTF-8 sequence
\* whose other bytes must follow as escapes.  URIError on anything else.
RECURSIVE DecodeURIComponent(_)
DecodeURIComponent(s) ==
    IF s = << >> THEN Ok(<< >>)
    ELSE IF Head(s) # "%"
    THEN LET rest == DecodeURIComponent(Tail(s))
         IN  IF rest.ok THEN Ok(<<CharCode(Head(s))>> \o rest.value) ELSE rest
    ELSE IF ~HasEscape(s) THEN Fail([type |-> "URIError"])
    ELSE LET n == Utf8Length(EscapeByte(s))
         IN  IF n = 0 \/ Len(s) < 3 * n
                \/ \E k \in 1..(n - 1) :
                      \/ ~HasEscape(SubSeq(s, 3 * k + 1, 3 * k + 3))
                      \/ ~IsContinuation(EscapeByte(SubSeq(s, 3 * k + 1, 3 * k + 3)))
             THEN Fail([type |-> "URIError"])
             ELSE LET bs == [k \in 1..n |-> EscapeByte(SubSeq(s, 3 * k - 2, 3 * k))]
                      rest == DecodeURIComponent(SubSeq(s, 3 * n + 1, Len(s)))
                  IN  IF ~IsValidUtf8(bs) THEN Fail([type |-> "URIError"])
                      ELSE IF rest.ok THEN Ok(<<Utf8Value(bs)>> \o rest.value)
                      ELSE rest

\* A faulty variant: the binary string of atob taken as the text
DecodeContentAsBinary(content) == Atob(content)

\* decodeURIComponent(atob(content).split("").map(...).join(""))
DecodeContent(content) ==
    LET binary == Atob(content)
    IN  IF binary.ok THEN DecodeURIComponent(PercentEscape(binary.value)) ELSE binary

\* (error as ApiError).status
StatusOf(error) == IF "status" \in DOMAIN error THEN Some(error.status) ELSE None

\* getReadmeWithContent after await this.getReadme(owner, repo): the try
\* block on its value, the catch on its error
ReadmeResult(out) ==
    IF out.kind = "return"
    THEN LET readme == out.value
             decoded == DecodeContent(readme.content)
         IN  IF readme.encoding # "base64"
             THEN Returned(Some([content |-> readme.content, name |-> readme.name]))
             ELSE IF decoded.ok
             THEN Returned(Some([content |-> decoded.value, name |-> readme.name]))
             ELSE Thrown(decoded.error)
    ELSE IF StatusOf(out.value) = Some(404) THEN Returned(None)
    ELSE Thrown(out.value)

\* The texts of the readmes: code points of 1, 2, 3 and 4 UTF-8 bytes
ReadmeCodePoints == {99, 233, 8364, 128512}

ReadmeTexts ==
    {<< >>, <<99, 97, 102, 233>>}
    \cup {<<a>> : a \in ReadmeCodePoints}
    \cup {<<a, b>> : a, b \in ReadmeCodePoints}

\* The UTF-8 bytes of a code point, as the server stores the file
Utf8Bytes(cp) ==
    IF cp < 128 THEN <<cp>>
    ELSE IF cp < 2048 THEN <<192 + (cp \div 64), 128 + (cp % 64)>>
    ELSE IF cp < 65536 THEN <<224 + (cp \div 4096), 128 + ((cp \div 64) % 64), 128 + (cp % 64)>>
    ELSE <<240 + (cp \div 262144), 128 + ((cp \div 4096) % 64), 128 + ((cp \div 64) % 64),
           128 + (cp % 64)>>

RECURSIVE Utf8Encode(_)
Utf8Encode(text) ==
    IF text = << >> THEN << >> ELSE Utf8Bytes(Head(text)) \o Utf8Encode(Tail(text))

\* The base64 of a sequence of bytes, padded with "="
RECURSIVE Base64Encode(_)
Base64Encode(bs) ==
    IF bs = << >> THEN << >>
    ELSE IF Len(bs) = 1
    THEN <<Base64Alphabet[(bs[1] \div 4) + 1], Base64Alphabet[((bs[1] % 4) * 16) + 1], "=", "=">>
    ELSE IF Len(bs) = 2
    THEN <<Base64Alphabet[(bs[1] \div 4) + 1],
           Base64Alphabet[((bs[1] % 4) * 16) + (bs[2] \div 16) + 1],
           Base64Alphabet[((bs[2] % 16) * 4) + 1], "=">>
    ELSE <<Base64Alphabet[(bs[1] \div 4) + 1],
           Base64Alphabet[((bs[1] % 4) * 16) + (bs[2] \div 16) + 1],
           Base64Alphabet[((bs[2] % 16) * 4) + (bs[3] \div 64) + 1],
           Base64Alphabet[(bs[3] % 64) + 1]>>
         \o Base64Encode(SubSeq(bs, 4, Len(bs)))

ReadmeFile(content, encoding) ==
    [content |-> content, encoding |-> encoding, name |-> "README.md"]

\* The readme objects the API answers with: base64 of UTF-8 text, with the
\* line feed the API ends it with; base64 of a file that is not UTF-8 (0xE9,
\* "e acute" in Latin-1) and content that is not base64; content under another
\* encoding
Readmes ==
    {ReadmeFile(Base64Encode(Utf8Encode(t)) \o <<"\n">>, "base64") : t \in ReadmeTexts}
    \cup {ReadmeFile(Base64Encode(<<99, 97, 102, 233>>), "base64"),
          ReadmeFile(<<"Y", "2", "F", "m", "!">>, "base64"),
          ReadmeFile(Base64Encode(Utf8Encode(<<99, 97, 102, 233>>)), "base64"),
          ReadmeFile(Base64Encode(Utf8Encode(<<99, 97, 102, 233>>)), "utf-8"),
          ReadmeFile(<< >>, "none")}

\* The answers to the readme fetch
ReadmeResponses ==
    [status : OkStatuses, headers : {NoHeaders}, body : Readmes]
    \cup [status : {403, 404, 500}, headers : {NoHeaders},
          body : {BodyEmpty, BodyNull, BodyObject(Some("Not Found"), None)}]

\* One invocation at a time reads the readme
ReadmeProcs == {"p1"}

\* getReadmeWithContent resumes with the outcome of request(): its result
ReadmeContinues(p) ==
    /\ pc[p] = "done"
    /\ call[p].op \in ReadmeOps
    /\ loc[p].result = None
    /\ loc' = [loc EXCEPT ![p].result = ReadmeResult(loc[p].out[1])]
    /\ UNCHANGED <<now, dbPromise, auth, cache, rateLimitInfo, pc, call, calls>>

ReadmeNext ==
    \/ Tick /\ UNCHANGED <<viewVars, db>>
    \/ DBOpens /\ UNCHANGED viewVars
    \/ DBOpenFails /\ UNCHANGED <<viewVars, db>>
    \/ \E p \in ReadmeProcs, op \in ReadmeOps : StartRequest(p, op) /\ UNCHANGED <<viewVars, db>>
    \/ \E p \in ReadmeProcs : CacheGet(p) /\ UNCHANGED <<viewVars, db>>
    \/ \E p \in ReadmeProcs : CacheDelete(p) /\ UNCHANGED <<viewVars, db>>
    \/ \E p \in ReadmeProcs : AuthGet(p) /\ UNCHANGED <<viewVars, db>>
    \/ \E p \in ReadmeProcs : FetchFails(p) /\ UNCHANGED <<viewVars, db>>
    \/ \E p \in ReadmeProcs, resp \in ReadmeResponses :
          FetchResolves(p, resp) /\ UNCHANGED <<viewVars, db>>
    \/ \E p \in ReadmeProcs : JsonResolves(p) /\ UNCHANGED <<viewVars, db>>
    \/ \E p \in ReadmeProcs : CachePut(p) /\ UNCHANGED <<viewVars, db>>
    \/ \E p \in ReadmeProcs : ReadmeContinues(p) /\ UNCHANGED <<viewVars, db>>
    \/ \E p \in ReadmeProcs : Return(p) /\ UNCHANGED <<viewVars, db>>

ReadmeSpec == Init /\ [][ReadmeNext]_vars

-----------------------------------------------------------------------------
(* searchIssues and searchPullRequests: the query they compose and the      *)
(* endpoint they hand to request()                                          *)

TypeIssue == <<"i", "s", "s", "u", "e">>
TypePr == <<"p", "r">>

StateOpen == <<"o", "p", "e", "n">>
StateClosed == <<"c", "l", "o", "s", "e", "d">>
StateAll == <<"a", "l", "l">>

SearchOps == {"searchIssues", "searchPullRequests"}

\* the type: qualifier of each operation
SearchType(op) == IF op = "searchIssues" THEN TypeIssue ELSE TypePr

\* A faulty variant: the state qualifier added whatever the state
SearchQueryStateAlways(type, owner, repo, query, state) ==
    LET base == <<"r", "e", "p", "o", ":">> \o owner \o <<"/">> \o repo \o <<" ", "t", "y", "p", "e", ":">> \o type
                \o <<" ", "s", "t", "a", "t", "e", ":">> \o state
    IN  IF Trim(query) # << >> THEN base \o <<" ">> \o Trim(query) ELSE base

\* let searchQuery = `repo:${owner}/${repo} type:issue`, then the two ifs
SearchQuery(type, owner, repo, query, state) ==
    LET base == <<"r", "e", "p", "o", ":">> \o owner \o <<"/">> \o repo \o <<" ", "t", "y", "p", "e", ":">> \o type
        withState == IF state # StateAll THEN base \o <<" ", "s", "t", "a", "t", "e", ":">> \o state ELSE base
    IN  IF Trim(query) # << >> THEN withState \o <<" ">> \o Trim(query) ELSE withState

\* n.toString() of a non-negative integer
RECURSIVE ToDecimal(_)
ToDecimal(n) ==
    IF n < 10 THEN <<Digits[n + 1]>> ELSE ToDecimal(n \div 10) \o <<Digits[(n % 10) + 1]>>

\* The characters URLSearchParams leaves as they are
IsUrlSafe(c) ==
    \/ c \in {"*", "-", ".", "_"}
    \/ CharCode(c) \in (48..57) \cup (65..90) \cup (97..122)

\* URLSearchParams: the serialization of a name or a value (ASCII): a space
\* is "+", an unsafe character its escape in upper-case hexadecimal
RECURSIVE FormEncode(_)
FormEncode(s) ==
    IF s = << >> THEN << >>
    ELSE (IF Head(s) = " " THEN <<"+">>
          ELSE IF IsUrlSafe(Head(s)) THEN <<Head(s)>>
          ELSE <<"%", UpperHexDigits[(CharCode(Head(s)) \div 16) + 1],
                 UpperHexDigits[(CharCode(Head(s)) % 16) + 1]>>)
         \o FormEncode(Tail(s))

\* new URLSearchParams({q, page, per_page}).toString()
SearchParams(q, page, perPage) ==
    <<"q", "=">> \o FormEncode(q)
    \o <<"&", "p", "a", "g", "e", "=">> \o FormEncode(ToDecimal(page))
    \o <<"&", "p", "e", "r", "_", "p", "a", "g", "e", "=">> \o FormEncode(ToDecimal(perPage))

\* `/search/issues?${params.toString()}`, the endpoint given to request()
SearchEndpoint(op, owner, repo, query, state, page, perPage) ==
    <<"/", "s", "e", "a", "r", "c", "h", "/", "i", "s", "s", "u", "e", "s", "?">> \o SearchParams(SearchQuery(SearchType(op), owner, repo, query, state),
                                      page, perPage)

\* The arguments the searches are called with
SearchTexts ==
    { << >>, <<" ">>, <<"x">>, <<" ", "x", " ">>, <<"a", " ", "b">>,
      <<"a", "&", "b", "=", "+">> }

SearchStates == {StateOpen, StateClosed, StateAll}

SearchPages == {1, 2, 10}

SearchPerPages == {30, 100}

SearchProcs == {"p1"}

SearchResponses ==
    [status : OkStatuses, headers : {NoHeaders}, body : {PayloadObject("v1")}]
    \cup [status : {403}, headers : {NoHeaders}, body : {BodyEmpty}]

\* searchIssues / searchPullRequests, up to the first await of request():
\* useCache is false, so that is getAuthToken()
StartSearch(p, op, query, state, page, perPage) ==
    /\ FreeSlot(p)
    /\ calls < MaxCalls
    /\ calls' = calls + 1
    /\ call' = [call EXCEPT ![p] =
                   [op |-> op, token |-> << >>, query |-> query, state |-> state,
                    page |-> page, perPage |-> perPage,
                    endpoint |-> SearchEndpoint(op, <<"o">>, <<"r">>, query, state,
                                                page, perPage)]]
    /\ loc' = [loc EXCEPT ![p] = NoLoc]
    /\ pc' = [pc EXCEPT ![p] = "authGet"]
    /\ dbPromise' = GetDB
    /\ UNCHANGED <<now, auth, cache, rateLimitInfo>>

SearchNext ==
    \/ DBOpens /\ UNCHANGED viewVars
    \/ DBOpenFails /\ UNCHANGED <<viewVars, db>>
    \/ \E p \in SearchProcs, op \in SearchOps, query \in SearchTexts, state \in SearchStates,
          page \in SearchPages, perPage \in SearchPerPages :
          StartSearch(p, op, query, state, page, perPage) /\ UNCHANGED <<viewVars, db>>
    \/ \E p \in SearchProcs : AuthGet(p) /\ UNCHANGED <<viewVars, db>>
    \/ \E p \in SearchProcs : FetchFails(p) /\ UNCHANGED <<viewVars, db>>
    \/ \E p \in SearchProcs, resp \in SearchResponses :
          FetchResolves(p, resp) /\ UNCHANGED <<viewVars, db>>
    \/ \E p \in SearchProcs : JsonResolves(p) /\ UNCHANGED <<viewVars, db>>
    \/ \E p \in SearchProcs : Return(p) /\ UNCHANGED <<viewVars, db>>

SearchSpec == Init /\ [][SearchNext]_vars

-----------------------------------------------------------------------------
(* One page through several sessions: logins with different tokens, logouts *)
(* and cached requests one after the other.  The server answers a request   *)
(* with what the credential it carries may see.                             *)

MaxSessionCalls == 4

SessionProcs == {"p1"}

SessionTokens == { <<"a">>, <<"b">> }

SessionOps == {"getAuthenticatedUser", "getRepository"}

\* The payload of an endpoint as the server gives it to a credential
Served(endpoint, authorization) == [endpoint |-> endpoint, authorization |-> authorization]

\* The answer to the request p has on the network: /user without a
\* credential is refused, anything else is served to the credential sent
SessionResponse(p) ==
    LET authorization == loc[p].sent[Len(loc[p].sent)]
    IN  IF call[p].op = "getAuthenticatedUser" /\ authorization = None
        THEN [status |-> 401, headers |-> NoHeaders,
              body |-> BodyObject(Some("Requires authentication"), None)]
        ELSE [status |-> 200, headers |-> NoHeaders,
              body |-> Served(Endpoint(call[p].op), authorization)]

\* The probe of validateToken is answered 200: both tokens are valid
ProbeOk == [status |-> 200, headers |-> NoHeaders, body |-> PayloadObject("v1")]

\* The next call of the session: a cached request, a login, a logout
SessionCall(p) ==
    /\ calls < MaxSessionCalls
    /\ calls' = calls + 1
    /\ \/ \E op \in SessionOps : Request(p, op)
       \/ \E raw \in SessionTokens : LoginWithToken(p, raw)
       \/ AuthOp(p, "logout")

SessionNext ==
    \/ Tick /\ UNCHANGED <<viewVars, db>>
    \/ DBOpens /\ UNCHANGED viewVars
    \/ \E p \in SessionProcs : SessionCall(p) /\ UNCHANGED <<viewVars, db>>
    \/ \E p \in SessionProcs : CacheGet(p) /\ UNCHANGED <<viewVars, db>>
    \/ \E p \in SessionProcs : CacheDelete(p) /\ UNCHANGED <<viewVars, db>>
    \/ \E p \in SessionProcs : AuthGet(p) /\ UNCHANGED <<viewVars, db>>
    \/ \E p \in SessionProcs : FetchResolves(p, SessionResponse(p)) /\ UNCHANGED <<viewVars, db>>
    \/ \E p \in SessionProcs : JsonResolves(p) /\ UNCHANGED <<viewVars, db>>
    \/ \E p \in SessionProcs : CachePut(p) /\ UNCHANGED <<viewVars, db>>
    \/ \E p \in SessionProcs : ProbeResolves(p, ProbeOk) /\ UNCHANGED <<viewVars, db>>
    \/ \E p \in SessionProcs : AuthPut(p) /\ UNCHANGED <<viewVars, db>>
    \/ \E p \in SessionProcs : AuthDelete(p) /\ UNCHANGED <<viewVars, db>>
    \/ \E p \in SessionProcs : Return(p) /\ UNCHANGED <<viewVars, db>>

SessionSpec == Init /\ [][SessionNext]_vars

-----------------------------------------------------------------------------
(* Concurrent cached requests over a longer time: entries are written,     *)
(* expire and are evicted on read while other requests are on the network  *)

MaxEvictionCalls == 3

EvictionOps == {"getAuthenticatedUser", "getRepository"}

EvictionResponses == [status : OkStatuses, headers : {NoHeaders}, body : {PayloadObject("v1")}]

\* The next request of the run
EvictionCall(p, op) ==
    /\ calls < MaxEvictionCalls
    /\ calls' = calls + 1
    /\ Request(p, op)

EvictionNext ==
    \/ Tick /\ UNCHANGED <<viewVars, db>>
    \/ DBOpens /\ UNCHANGED viewVars
    \/ \E p \in Procs, op \in EvictionOps : EvictionCall(p, op) /\ UNCHANGED <<viewVars, db>>
    \/ \E p \in Procs : CacheGet(p) /\ UNCHANGED <<viewVars, db>>
    \/ \E p \in Procs : CacheDelete(p) /\ UNCHANGED <<viewVars, db>>
    \/ \E p \in Procs : AuthGet(p) /\ UNCHANGED <<viewVars, db>>
    \/ \E p \in Procs : FetchFails(p) /\ UNCHANGED <<viewVars, db>>
    \/ \E p \in Procs, resp \in EvictionResponses :
          FetchResolves(p, resp) /\ UNCHANGED <<viewVars, db>>
    \/ \E p \in Procs : JsonResolves(p) /\ UNCHANGED <<viewVars, db>>
    \/ \E p \in Procs : CachePut(p) /\ UNCHANGED <<viewVars, db>>
    \/ \E p \in Procs : Return(p) /\ UNCHANGED <<viewVars, db>>

EvictionSpec == Init /\ [][EvictionNext]_vars

-----------------------------------------------------------------------------
(* AuthProvider (auth-context.tsx) above the client: the mount-time check, *)
(* refreshUser and logout, the login form that calls loginWithToken and    *)
(* then refreshUser, and the requests the rest of the page makes.  Each    *)
(* call of one of these functions is an invocation of its own; they        *)
(* interleave at their awaits.                                             *)

\* The credential an earlier page load may have left in the store
StoredCredential == NewAuthData(<<"a">>, "bearer", "", 0)

ProviderInit ==
    /\ now = 0
    /\ dbPromise = "null"
    /\ db = Database(DB_VERSION, {"auth", "cache"}, {"by-expiry"})
    /\ auth \in {None, Some(StoredCredential)}
    /\ cache = [k \in CacheKeys |-> None]
    /\ rateLimitInfo = None
    /\ pc = [p \in Procs |-> "idle"]
    /\ call = [p \in Procs |-> NoCall]
    /\ loc = [p \in Procs |-> NoLoc]
    /\ calls = 0
    /\ NoView

\* What the server answers the provider's and the page's requests with: a
\* payload (an object, or null), or a refusal (a revoked token, the rate
\* limit)
ProviderResponses ==
    [status : OkStatuses, headers : {NoHeaders}, body : {PayloadObject("v1"), JsonNull}]
    \cup [status : {401, 403}, headers : {NoHeaders},
          body : {BodyObject(Some("Bad credentials"), None)}]

\* The call the function holding invocation p awaits has its outcome
Awaited(p, task) ==
    /\ authCtx.task[p] = task
    /\ pc[p] = "done"

Outcome(p) == loc[p].out[1]

\* The function holding invocation p is over
Settled(ctx, p) == [ctx EXCEPT !.task[p] = "none", !.caller[p] = "none", !.form[p] = "none"]

\* setIsLoading(false) of the handleSubmit holding invocation p: it sets the
\* cell of its form, and nothing once that form is unmounted
SetIsLoadingFalse(ctx, p) ==
    IF ctx.form[p] \in Forms
    THEN [ctx EXCEPT !.tokenLoginIsLoading[ctx.form[p]] = FALSE]
    ELSE ctx

\* The cells of ctx a render reads
Shown(ctx) ==
    [ isAuthenticated |-> ctx.isAuthenticated,
      isLoading |-> ctx.isLoading,
      user |-> ctx.user,
      showLogin |-> ctx.showLogin,
      tokenLoginIsLoading |-> ctx.tokenLoginIsLoading ]

\* A render with the cells r has the form f: HomePage renders its TokenLogin
\* in the last branch of isLoading ? ... : isAuthenticated && user ? ... ;
\* Header renders the modal's under showLogin && !isAuthenticated
TokenLoginMounted(r, f) ==
    IF f = "home"
    THEN ~r.isLoading /\ ~(r.isAuthenticated /\ r.user # None)
    ELSE r.showLogin /\ ~r.isAuthenticated

\* ... the Sign out item: Header renders UserMenu under !isLoading and
\* isAuthenticated, UserMenu renders when user is set
UserMenuOffered(r) == ~r.isLoading /\ r.isAuthenticated /\ r.user # None

\* ... the header's Sign in button
SignInOffered(r) == ~r.isLoading /\ ~r.isAuthenticated

\* React renders the cells as set: a form the render does not have is
\* unmounted, its cell is gone (the form mounted later starts from
\* useState(false)) and a handleSubmit of it still running sets nothing
ProviderRenders(ctx) ==
    LET cells == [f \in Forms |-> TokenLoginMounted(Shown(ctx), f) /\ ctx.tokenLoginIsLoading[f]]
        kept == [ctx EXCEPT
                    !.tokenLoginIsLoading = cells,
                    !.form = [p \in Procs |->
                                 IF ctx.form[p] \in Forms /\ ~TokenLoginMounted(Shown(ctx), ctx.form[p])
                                 THEN "gone" ELSE ctx.form[p]]]
    IN  [kept EXCEPT !.rendered = Shown(kept)]

\* The function goes on from its await and calls the store or the client
\* again: the call runs to its first await, which follows getDB(), in the
\* same task
CallsNext(p, op) ==
    /\ pc[p] = "done"
    /\ call' = [call EXCEPT ![p] = [op |-> op, token |-> << >>]]
    /\ loc' = [loc EXCEPT ![p] = NoLoc]
    /\ pc' = [pc EXCEPT ![p] = IF op = "getAuthenticatedUser" THEN "cacheGet" ELSE "authGet"]
    /\ dbPromise' = GetDB
    /\ UNCHANGED <<now, auth, cache, rateLimitInfo>>

\* refreshUser has returned to its caller: checkAuth's finally, or
\* handleSubmit's setToken(""), setIsLoading(false)
RefreshReturns(ctx, p) ==
    Settled(IF ctx.caller[p] = "checkAuth"
            THEN [ctx EXCEPT !.isLoading = FALSE]
            ELSE SetIsLoadingFalse(ctx, p),
            p)

\* refreshUser's else branch and its catch: setUser(null),
\* setIsAuthenticated(false)
RefreshFailed(ctx, p) ==
    RefreshReturns([ctx EXCEPT !.user = None, !.isAuthenticated = FALSE], p)

\* checkAuth, the mount effect, up to await isLoggedIn()
CheckAuth(p) ==
    /\ ~authCtx.mounted
    /\ AuthOp(p, "isLoggedIn")
    /\ authCtx' = [authCtx EXCEPT !.isLoading = TRUE, !.mounted = TRUE,
                                  !.task[p] = "isLoggedIn", !.caller[p] = "checkAuth"]
    /\ UNCHANGED calls

\* checkAuth after await isLoggedIn(): setIsAuthenticated(loggedIn), then
\* refreshUser up to its await getAuthToken() when logged in; the catch and
\* the finally otherwise
CheckAuthContinues(p) ==
    /\ Awaited(p, "isLoggedIn")
    /\ IF Outcome(p).kind = "return" /\ Outcome(p).value
       THEN /\ CallsNext(p, "getAuthToken")
            /\ authCtx' = [authCtx EXCEPT !.isAuthenticated = TRUE, !.task[p] = "getAuthToken"]
       ELSE /\ Return(p)
            /\ authCtx' = Settled([authCtx EXCEPT !.isAuthenticated = FALSE,
                                                  !.isLoading = FALSE], p)
    /\ UNCHANGED calls

\* refreshUser after await getAuthToken(): if (token) it goes on to its
\* await githubClient.getAuthenticatedUser(); the else branch and the catch
\* otherwise
RefreshUserHasToken(p) ==
    /\ Awaited(p, "getAuthToken")
    /\ IF Outcome(p).kind = "return" /\ Truthy(Outcome(p).value)
       THEN /\ CallsNext(p, "getAuthenticatedUser")
            /\ authCtx' = [authCtx EXCEPT !.task[p] = "getAuthenticatedUser"]
       ELSE /\ Return(p)
            /\ authCtx' = RefreshFailed(authCtx, p)
    /\ UNCHANGED calls

\* refreshUser after await getAuthenticatedUser(): setUser(userData),
\* setIsAuthenticated(true), where userData may be null and user is then
\* null as after setUser(null); the catch otherwise
RefreshUserSettles(p) ==
    /\ Awaited(p, "getAuthenticatedUser")
    /\ Return(p)
    /\ authCtx' =
          IF Outcome(p).kind = "return"
          THEN RefreshReturns([authCtx EXCEPT
                                  !.user = IF Outcome(p).value = JsonNull
                                           THEN None ELSE Some(Outcome(p).value),
                                  !.isAuthenticated = TRUE], p)
          ELSE RefreshFailed(authCtx, p)
    /\ UNCHANGED calls

\* React's scheduled render of the cells set by checkAuth, refreshUser,
\* logout and handleSubmit after their awaits
ProviderRender ==
    /\ ~Returning
    /\ ProviderRenders(authCtx) # authCtx
    /\ authCtx' = ProviderRenders(authCtx)
    /\ UNCHANGED clientVars

\* A click on the header's Sign in button: setShowLogin(true), and the render
\* of the event
ShowLogin ==
    /\ ~Returning
    /\ SignInOffered(authCtx.rendered)
    /\ ~authCtx.showLogin
    /\ authCtx' = ProviderRenders([authCtx EXCEPT !.showLogin = TRUE])
    /\ UNCHANGED clientVars

\* A click on the modal's Close button: setShowLogin(false), and the render
\* of the event
HideLogin ==
    /\ ~Returning
    /\ TokenLoginMounted(authCtx.rendered, "modal")
    /\ authCtx' = ProviderRenders([authCtx EXCEPT !.showLogin = FALSE])
    /\ UNCHANGED clientVars

\* The provider's logout, a click on the Sign out item of the user menu in
\* the DOM, up to await authLogout(): it tests nothing and sets nothing
\* before the await, so the item stays in the DOM and takes further clicks
ProviderLogout(p) ==
    /\ UserMenuOffered(authCtx.rendered)
    /\ AuthOp(p, "logout")
    /\ authCtx' = [authCtx EXCEPT !.task[p] = "logout"]
    /\ UNCHANGED calls

\* ... and after it: setUser(null), setIsAuthenticated(false); when
\* authLogout() throws, logout rejects there
ProviderLogoutContinues(p) ==
    /\ Awaited(p, "logout")
    /\ Return(p)
    /\ authCtx' =
          IF Outcome(p).kind = "return"
          THEN Settled([authCtx EXCEPT !.user = None, !.isAuthenticated = FALSE], p)
          ELSE Settled(authCtx, p)
    /\ UNCHANGED calls

\* TokenLogin.handleSubmit of the form f in the DOM, whose button is disabled
\* by the form's own isLoading as rendered, up to await loginWithToken(token):
\* setError(null), setIsLoading(true), and the render of the event
HandleSubmit(p, f, raw) ==
    /\ TokenLoginMounted(authCtx.rendered, f)
    /\ ~authCtx.rendered.tokenLoginIsLoading[f]
    /\ LoginWithToken(p, raw)
    /\ authCtx' = ProviderRenders([authCtx EXCEPT !.tokenLoginIsLoading[f] = TRUE,
                                                  !.task[p] = "loginWithToken",
                                                  !.caller[p] = "handleSubmit",
                                                  !.form[p] = f])
    /\ UNCHANGED calls

\* ... and after it: if (result.success) refreshUser() up to its await
\* getAuthToken(); else setError, setIsLoading(false).  When loginWithToken
\* throws, handleSubmit rejects there and setIsLoading(false) is not reached
HandleSubmitContinues(p) ==
    /\ Awaited(p, "loginWithToken")
    /\ IF Outcome(p).kind = "return" /\ Outcome(p).value.success
       THEN /\ CallsNext(p, "getAuthToken")
            /\ authCtx' = [authCtx EXCEPT !.task[p] = "getAuthToken"]
       ELSE /\ Return(p)
            /\ authCtx' =
                  IF Outcome(p).kind = "throw"
                  THEN Settled(authCtx, p)
                  ELSE Settled(SetIsLoadingFalse(authCtx, p), p)
    /\ UNCHANGED calls

\* A request of the rest of the page
PageRequest(p) ==
    /\ Request(p, "getRepository")
    /\ UNCHANGED <<calls, authCtx>>

\* ... and its outcome handed to the page
PageReturn(p) ==
    /\ authCtx.task[p] = "none"
    /\ Return(p)
    /\ UNCHANGED <<calls, authCtx>>

ProviderNext ==
    \/ DBOpens /\ UNCHANGED <<route, ui, rendered, timer, inflight, authCtx>>
    \/ \E p \in Procs : CheckAuth(p) /\ UNCHANGED <<route, ui, rendered, timer, inflight, db>>
    \/ \E p \in Procs : CheckAuthContinues(p) /\ UNCHANGED <<route, ui, rendered, timer, inflight, db>>
    \/ \E p \in Procs : RefreshUserHasToken(p) /\ UNCHANGED <<route, ui, rendered, timer, inflight, db>>
    \/ \E p \in Procs : RefreshUserSettles(p) /\ UNCHANGED <<route, ui, rendered, timer, inflight, db>>
    \/ ProviderRender /\ UNCHANGED <<route, ui, rendered, timer, inflight, db>>
    \/ ShowLogin /\ UNCHANGED <<route, ui, rendered, timer, inflight, db>>
    \/ HideLogin /\ UNCHANGED <<route, ui, rendered, timer, inflight, db>>
    \/ \E p \in Procs : ProviderLogout(p) /\ UNCHANGED <<route, ui, rendered, timer, inflight, db>>
    \/ \E p \in Procs : ProviderLogoutContinues(p) /\ UNCHANGED <<route, ui, rendered, timer, inflight, db>>
    \/ \E p \in Procs, f \in Forms, raw \in {<<"a">>, <<" ">>} :
          HandleSubmit(p, f, raw) /\ UNCHANGED <<route, ui, rendered, timer, inflight, db>>
    \/ \E p \in Procs : HandleSubmitContinues(p) /\ UNCHANGED <<route, ui, rendered, timer, inflight, db>>
    \/ \E p \in Procs : PageRequest(p) /\ UNCHANGED <<route, ui, rendered, timer, inflight, db>>
    \/ \E p \in Procs : PageReturn(p) /\ UNCHANGED <<route, ui, rendered, timer, inflight, db>>
    \/ \E p \in Procs : CacheGet(p) /\ UNCHANGED <<viewVars, db>>
    \/ \E p \in Procs : AuthGet(p) /\ UNCHANGED <<viewVars, db>>
    \/ \E p \in Procs : FetchFails(p) /\ UNCHANGED <<viewVars, db>>
    \/ \E p \in Procs, resp \in ProviderResponses :
          FetchResolves(p, resp) /\ UNCHANGED <<viewVars, db>>
    \/ \E p \in Procs : JsonResolves(p) /\ UNCHANGED <<viewVars, db>>
    \/ \E p \in Procs : CachePut(p) /\ UNCHANGED <<viewVars, db>>
    \/ \E p \in Procs : ProbeFails(p) /\ UNCHANGED <<viewVars, db>>
    \/ \E p \in Procs, resp \in ProviderResponses :
          ProbeResolves(p, resp) /\ UNCHANGED <<viewVars, db>>
    \/ \E p \in Procs : AuthPut(p) /\ UNCHANGED <<viewVars, db>>
    \/ \E p \in Procs : AuthDelete(p) /\ UNCHANGED <<viewVars, db>>

ProviderSpec == ProviderInit /\ [][ProviderNext]_vars

-----------------------------------------------------------------------------
(* The list views: IssuesList and PullRequestsList.  A view is its React   *)
(* state, the debounce timer and the fetches it has started; the client is *)
(* what answers them.                                                      *)

PER_PAGE == 30

\* Bounds of the view model: the page up to which "load more" is clicked and
\* the fetches of a view that may be awaiting their answer at once
MaxPage == 2
MaxInflight == 2

\* The calls of the client a view makes in a run: the first load and
\* MaxViewCalls - 1 reloads or load-mores; MaxLiveCalls where the runs are
\* followed to their end
MaxViewCalls == 3
MaxLiveCalls == 3

Lists == {"issues", "pulls"}

\* The state tabs clicked (IssueState is "open" | "closed" | "all")
IssueStates == {"open", "closed"}

\* The texts typed into the search input
Queries == { << >>, <<" ">>, <<"x">> }

\* debouncedSearchQuery.trim() is truthy: the search API is used
Filtered(query) == Trim(query) # << >>

\* The fetch of loadIssues / loadPullRequests: page 1 for the issueState and
\* debouncedSearchQuery of the render whose effect runs, made as invocation p
\* of the client
LoadFetch(u, p) ==
    [kind |-> "load", issueState |-> u.issueState, query |-> u.debouncedSearchQuery,
     page |-> 1, length |-> 0, proc |-> p]

\* The fetch of loadMoreIssues / loadMorePRs: nextPage, with the values its
\* closure holds from the render in which the button was clicked
MoreFetch(u, p) ==
    [kind |-> "more", issueState |-> u.issueState, query |-> u.debouncedSearchQuery,
     page |-> u.currentPage + 1, length |-> Len(u.issues), proc |-> p]

\* The client operation a fetch calls
Operation(f) ==
    IF Filtered(f.query)
    THEN (IF route.list = "issues" THEN "searchIssues" ELSE "searchPullRequests")
    ELSE (IF route.list = "issues" THEN "getIssues" ELSE "getPullRequests")

\* An IssueState as the characters of the string
StateChars(st) ==
    CASE st = "open" -> StateOpen
      [] st = "closed" -> StateClosed
      [] st = "all" -> StateAll

\* The string of a sequence of characters
RECURSIVE Join(_)
Join(s) == IF s = << >> THEN "" ELSE Head(s) \o Join(Tail(s))

\* new URLSearchParams({state, page, per_page}).toString()
ListParams(state, page, perPage) ==
    <<"s", "t", "a", "t", "e", "=">> \o FormEncode(state)
    \o <<"&", "p", "a", "g", "e", "=">> \o FormEncode(ToDecimal(page))
    \o <<"&", "p", "e", "r", "_", "p", "a", "g", "e", "=">> \o FormEncode(ToDecimal(perPage))

\* The endpoint the operation of a fetch hands to request()
ViewEndpoint(f) ==
    IF Filtered(f.query)
    THEN Join(SearchEndpoint(Operation(f), <<"o">>, <<"r">>, f.query,
                             StateChars(f.issueState), f.page, PER_PAGE))
    ELSE (IF route.list = "issues" THEN "/repos/o/r/issues?" ELSE "/repos/o/r/pulls?")
         \o Join(ListParams(StateChars(f.issueState), f.page, PER_PAGE))

\* The keys under which the answers of the view's listings are cached
ViewCacheKeys ==
    { CacheKey(ViewEndpoint([issueState |-> st, query |-> << >>, page |-> n])) :
         st \in IssueStates, n \in 1..MaxPage }

\* The pages the server answers with: how many items, and which of them carry
\* a pull_request reference
ListShapes ==
    { [len |-> 5, prs |-> {2, 4}],
      [len |-> PER_PAGE, prs |-> {1}] }

SearchShapes ==
    { [len |-> 0, prs |-> {}],
      [len |-> PER_PAGE, prs |-> {}] }

\* The total_count values a search answers with
TotalCounts == {30, 45}

\* The items of an answer to fetch f, each marked with the request it
\* answers: the state, the text searched for and the page
Items(f, shape) ==
    LET text == Trim(f.query)
    IN  [n \in 1..shape.len |->
           [issueState |-> f.issueState, query |-> text, page |-> f.page, n |-> n,
            pull_request |-> n \in shape.prs]]

\* What the client resolves a fetch with: an array from the listing
\* endpoints, {total_count, items} from the search endpoints
Answers(f) ==
    IF Filtered(f.query)
    THEN {[items |-> Items(f, sh), total_count |-> Some(t)] : sh \in SearchShapes, t \in TotalCounts}
    ELSE {[items |-> Items(f, sh), total_count |-> None] : sh \in ListShapes}

\* The rate-limit headers the server sends with every answer
ViewHeaders == Headers(Str(H60), Str(H59), Str(HReset), Str(H1))

\* What the network answers the request of fetch f with
ViewResponses(f) ==
    [status : OkStatuses, headers : {ViewHeaders}, body : Answers(f)]
    \cup { [status |-> 404, headers |-> ViewHeaders,
            body |-> BodyObject(Some("Not Found"), None)],
           [status |-> 403, headers |-> ViewHeaders,
            body |-> BodyObject(Some("API rate limit exceeded"), None)] }

\* What the catch of a view reads of the error the client rejected with
\* (err as ApiError): the typed error of a status, or what fetch rejected
\* with, whose message is the browser's and may be empty
ViewErrors ==
    { [status |-> Some(404), message |-> Some("Not Found")],
      [status |-> Some(403), message |-> Some("API rate limit exceeded")],
      [status |-> None, message |-> Some("Failed to fetch")],
      [status |-> None, message |-> Some("")] }

\* The call of fetch i has settled, and how
Answered(i) == pc[inflight[i].proc] = "done"
Settlement(i) == loc[inflight[i].proc].out[1]

\* The client has resolved the call of fetch i with answer
Resolved(i, answer) ==
    /\ Answered(i)
    /\ Settlement(i) = [kind |-> "return", value |-> answer]

\* The client has rejected the call of fetch i, and err is what the catch
\* reads of the error
Rejected(i, err) ==
    /\ Answered(i)
    /\ Settlement(i).kind = "throw"
    /\ LET e == Settlement(i).value
       IN  IF e.type = "ApiError"
           THEN err = [status |-> Some(e.status), message |-> Some(e.message)]
           ELSE err.status = None

\* A faulty variant: the items kept as the endpoint returned them
IssuesOnlyUnfiltered(items) == items

\* issuesData.filter((issue) => !issue.pull_request); the pull requests view
\* keeps every item
IssuesOnly(items) ==
    IF route.list = "issues"
    THEN SelectSeq(items, LAMBDA issue : ~issue.pull_request)
    ELSE items

\* totalCount: searchResults.total_count, or issuesData.length from a listing
TotalCount(f, answer) ==
    IF Filtered(f.query) THEN answer.total_count[1] ELSE Len(answer.items)

\* A faulty variant: a full page counted after the pull requests are taken out
HasMoreAfterLoadCountingIssuesOnly(f, answer) ==
    IF Filtered(f.query)
    THEN Len(IssuesOnly(answer.items)) < TotalCount(f, answer)
    ELSE Len(IssuesOnly(answer.items)) = PER_PAGE

\* the argument of setHasMore in loadIssues / loadPullRequests
HasMoreAfterLoad(f, answer) ==
    IF Filtered(f.query)
    THEN Len(IssuesOnly(answer.items)) < TotalCount(f, answer)
    ELSE Len(answer.items) = PER_PAGE

\* the argument of setHasMore in loadMoreIssues / loadMorePRs: issues.length
\* is the length the closure holds
HasMoreAfterMore(f, answer) ==
    IF Filtered(f.query)
    THEN f.length + Len(IssuesOnly(answer.items)) < TotalCount(f, answer)
    ELSE Len(answer.items) = PER_PAGE

MessageOr(err, fallback) ==
    IF err.message # None /\ err.message[1] # "" THEN err.message[1] ELSE fallback

\* A faulty variant: the error's own message without the fallback
LoadErrorMessageNoFallback(err) ==
    IF err.status = Some(404) THEN "Repository o/r not found."
    ELSE IF err.status = Some(403)
    THEN "Rate limit exceeded. Please try again later or sign in."
    ELSE IF err.message = None THEN "" ELSE err.message[1]

\* the catch of loadIssues / loadPullRequests: the message it sets
LoadErrorMessage(err) ==
    IF err.status = Some(404) THEN "Repository o/r not found."
    ELSE IF err.status = Some(403)
    THEN "Rate limit exceeded. Please try again later or sign in."
    ELSE MessageOr(err, IF route.list = "issues" THEN "Failed to load issues"
                        ELSE "Failed to load pull requests")

\* the catch of loadMoreIssues / loadMorePRs: the message it sets
MoreErrorMessage(err) ==
    MessageOr(err, IF route.list = "issues" THEN "Failed to load more issues"
                   ELSE "Failed to load more pull requests")

\* What the component returns of the error for the state u of a render: its
\* text in the error card, which is returned only when state === "error"
ErrorCard(u) == IF u.state = "error" THEN u.error ELSE None

\* What the DOM shows of the error: the error card of the last render
DisplayedError == ErrorCard(rendered)

\* loadIssues up to its await, run by the effect on [owner, repo, issueState,
\* debouncedSearchQuery] after the render of state u: the state as set
LoadIssuesUi(u) ==
    IF ~route.valid
    THEN [u EXCEPT !.state = "error", !.error = Some("Invalid repository path")]
    ELSE [u EXCEPT !.state = "loading", !.error = None, !.currentPage = 1, !.hasMore = FALSE]

\* The invocations of the client that are free, in the order in which new
\* calls take them
FreeProcs == SelectSeq(<<"p1", "p2">>, LAMBDA p : pc[p] = "idle")

\* The call of the operation of fetch f
ViewCall(f) == [op |-> Operation(f), token |-> << >>, endpoint |-> ViewEndpoint(f)]

\* The operations of the fetches fs called in one task, in that order: each
\* is request() from its call to its first await, getCachedResponse(cacheKey)
\* when useCache, getAuthToken() otherwise; both start with getDB()
CallsClient(fs) ==
    /\ ~Returning
    /\ Len(fs) <= Len(FreeProcs)
    /\ Len(inflight) + Len(fs) <= MaxInflight
    /\ calls + Len(fs) <= MaxViewCalls
    /\ calls' = calls + Len(fs)
    /\ LET started == [k \in 1..Len(fs) |-> [fs[k] EXCEPT !.proc = FreeProcs[k]]]
           taken == {started[k].proc : k \in 1..Len(fs)}
           of(q) == started[CHOOSE k \in 1..Len(fs) : started[k].proc = q]
       IN  /\ inflight' = inflight \o started
           /\ call' = [q \in Procs |-> IF q \in taken THEN ViewCall(of(q)) ELSE call[q]]
           /\ loc' = [q \in Procs |-> IF q \in taken THEN NoLoc ELSE loc[q]]
           /\ pc' = [q \in Procs |->
                       IF q \notin taken THEN pc[q]
                       ELSE IF UseCache(Operation(of(q))) THEN "cacheGet" ELSE "authGet"]
    /\ dbPromise' = IF fs = << >> THEN dbPromise ELSE GetDB
    /\ UNCHANGED <<now, auth, cache, rateLimitInfo>>

\* The load effect runs after the render of state s, in a task in which the
\* fetches fs have been started already: loadIssues / loadPullRequests up to
\* its await.  Its setState calls are rendered by a later render
LoadIssues(s, fs) ==
    /\ ui' = LoadIssuesUi(s)
    /\ CallsClient(IF route.valid THEN Append(fs, LoadFetch(s, "p1")) ELSE fs)

Without(seq, i) == SubSeq(seq, 1, i - 1) \o SubSeq(seq, i + 1, Len(seq))

\* The delay of the debounce timer, in milliseconds
DebounceMs == 500

\* A faulty variant: an effect whose cleanup leaves the pending timer armed
ClearTimeoutNothing(pending) == pending

\* return () => clearTimeout(timer): the cleanup of the debounce effect, run
\* before the effect runs again; the timer its last run armed is dropped
ClearTimeout(pending) == << >>

\* The debounce effect, run by a render with a new searchQuery q: the cleanup
\* of its last run, then setTimeout(() => setDebouncedSearchQuery(q), 500)
DebounceEffect(pending, q) ==
    Append(ClearTimeout(pending), [value |-> q, delay |-> DebounceMs])

\* React renders: every update queued so far is applied, so that the state
\* rendered is the state as set, s; then the effects whose dependencies
\* differ from those of the last render run, the debounce effect before the
\* load effect.  fs are the fetches the handler of the task has started
Renders(s, fs) ==
    /\ rendered' = s
    /\ timer' = IF s.searchQuery # rendered.searchQuery
                THEN DebounceEffect(timer, s.searchQuery)
                ELSE timer
    /\ IF <<s.issueState, s.debouncedSearchQuery>>
             # <<rendered.issueState, rendered.debouncedSearchQuery>>
       THEN LoadIssues(s, fs)
       ELSE ui' = s /\ CallsClient(fs)
    /\ UNCHANGED route

\* A view mounts: the first render is of the useState initial values, both
\* effects run, the debounce timer is armed with the empty query and the
\* first page is asked for: the first call of the client is at its first
\* await, on the database it has started to open
ViewInit ==
    /\ \E list \in Lists, valid \in BOOLEAN : route = [list |-> list, valid |-> valid]
    /\ rendered = InitialUi
    /\ ui = LoadIssuesUi(InitialUi)
    /\ timer = DebounceEffect(<< >>, InitialUi.searchQuery)
    /\ inflight = IF route.valid THEN <<LoadFetch(InitialUi, "p1")>> ELSE << >>
    /\ authCtx = InitialAuthContext
    /\ now = 0
    /\ dbPromise = IF route.valid THEN "pending" ELSE "null"
    /\ db = FreshDatabase
    /\ auth = None
    /\ cache = [k \in ViewCacheKeys |-> None]
    /\ rateLimitInfo = None
    /\ pc = [p \in Procs |-> IF route.valid /\ p = "p1" THEN "cacheGet" ELSE "idle"]
    /\ call = [p \in Procs |->
                 IF route.valid /\ p = "p1" THEN ViewCall(LoadFetch(InitialUi, "p1"))
                 ELSE NoCall]
    /\ loc = [p \in Procs |-> NoLoc]
    /\ calls = IF route.valid THEN 1 ELSE 0

\* The input, the tabs and the list are in the DOM when the last render was
\* of the success state
Interactive == rendered.state = "success"

\* onChange of the search input, a discrete event, rendered before the task
\* ends: setSearchQuery; the debounce effect clears the pending timer and
\* arms a new one
SetSearchQuery(q) ==
    /\ ~Returning
    /\ Interactive
    /\ q # rendered.searchQuery
    /\ Renders([ui EXCEPT !.searchQuery = q], << >>)

\* The debounce timer fires: its callback calls setDebouncedSearchQuery with
\* the searchQuery it was armed for and returns; the update is rendered by
\* the render React schedules, or by that of a discrete event before it
TimerFires ==
    /\ ~Returning
    /\ timer # << >>
    /\ timer' = Tail(timer)
    /\ ui' = [ui EXCEPT !.debouncedSearchQuery = timer[1].value]
    /\ UNCHANGED <<route, rendered, inflight>>

\* The render React has scheduled for the updates made outside its event
\* handlers (a timer callback, an effect, the code after an await) runs, in
\* a task of its own
Render ==
    /\ ~Returning
    /\ rendered # ui
    /\ Renders(ui, << >>)

\* A click on a state tab: setIssueState, and the render of the event, with
\* the updates pending; the load effect runs when its dependencies changed.
\* A click on the tab already selected, with no update pending, is dropped
\* by React (the state is the same)
SetIssueState(st) ==
    /\ ~Returning
    /\ Interactive
    /\ st # rendered.issueState \/ rendered # ui
    /\ Renders([ui EXCEPT !.issueState = st], << >>)

\* A faulty variant: clearSearch setting the typed query only
ClearSearchTypedOnly ==
    /\ ~Returning
    /\ Interactive
    /\ rendered.searchQuery # << >>
    /\ Renders([ui EXCEPT !.searchQuery = << >>], << >>)

\* clearSearch, the button rendered beside a non-empty input: both queries
\* are set to the empty string, after any update still queued; the debounce
\* effect arms a new timer, and the load effect runs when the debounced
\* query rendered has changed
ClearSearch ==
    /\ ~Returning
    /\ Interactive
    /\ rendered.searchQuery # << >>
    /\ Renders([ui EXCEPT !.searchQuery = << >>, !.debouncedSearchQuery = << >>], << >>)

\* The "Load More" button is rendered under a non-empty list when hasMore,
\* and is disabled while loadingMore
LoadMoreEnabled ==
    /\ Interactive
    /\ rendered.issues # << >>
    /\ rendered.hasMore
    /\ ~rendered.loadingMore

\* loadMoreIssues / loadMorePRs up to its await: the handler is that of the
\* last render, whose values it reads; setLoadingMore(true) is rendered when
\* the handler has returned
LoadMoreIssues ==
    /\ ~Returning
    /\ LoadMoreEnabled
    /\ ~(rendered.loadingMore \/ ~rendered.hasMore)
    /\ rendered.currentPage < MaxPage
    /\ Renders([ui EXCEPT !.loadingMore = TRUE], <<MoreFetch(rendered, "p1")>>)

\* loadIssues after its await, the client having resolved
LoadResolves(i, answer) ==
    /\ inflight[i].kind = "load"
    /\ Resolved(i, answer)
    /\ Return(inflight[i].proc)
    /\ ui' = [ui EXCEPT !.issues = IssuesOnly(answer.items),
                        !.hasMore = HasMoreAfterLoad(inflight[i], answer),
                        !.state = "success"]
    /\ inflight' = Without(inflight, i)
    /\ UNCHANGED <<route, rendered, timer>>

\* loadIssues after its await, the client having rejected: the catch
LoadFails(i, err) ==
    /\ inflight[i].kind = "load"
    /\ Rejected(i, err)
    /\ Return(inflight[i].proc)
    /\ ui' = [ui EXCEPT !.state = "error", !.error = Some(LoadErrorMessage(err))]
    /\ inflight' = Without(inflight, i)
    /\ UNCHANGED <<route, rendered, timer>>

\* loadMoreIssues after its await, the client having resolved: the page is
\* appended to the list as set
MoreResolves(i, answer) ==
    /\ inflight[i].kind = "more"
    /\ Resolved(i, answer)
    /\ Return(inflight[i].proc)
    /\ ui' = [ui EXCEPT !.issues = @ \o IssuesOnly(answer.items),
                        !.currentPage = inflight[i].page,
                        !.hasMore = HasMoreAfterMore(inflight[i], answer),
                        !.loadingMore = FALSE]
    /\ inflight' = Without(inflight, i)
    /\ UNCHANGED <<route, rendered, timer>>

\* A faulty variant: a catch without the finally that resets loadingMore
MoreFailsWithoutFinally(i, err) ==
    /\ inflight[i].kind = "more"
    /\ Rejected(i, err)
    /\ Return(inflight[i].proc)
    /\ ui' = [ui EXCEPT !.error = Some(MoreErrorMessage(err))]
    /\ inflight' = Without(inflight, i)
    /\ UNCHANGED <<route, rendered, timer>>

\* loadMoreIssues after its await, the client having rejected: catch, finally
MoreFails(i, err) ==
    /\ inflight[i].kind = "more"
    /\ Rejected(i, err)
    /\ Return(inflight[i].proc)
    /\ ui' = [ui EXCEPT !.error = Some(MoreErrorMessage(err)), !.loadingMore = FALSE]
    /\ inflight' = Without(inflight, i)
    /\ UNCHANGED <<route, rendered, timer>>

\* A list view with the client its fetches are calls of
ViewNext ==
    \/ DBOpens /\ UNCHANGED viewVars
    \/ \E q \in Queries : SetSearchQuery(q) /\ UNCHANGED <<db, authCtx>>
    \/ TimerFires /\ UNCHANGED <<clientVars, db, authCtx>>
    \/ Render /\ UNCHANGED <<db, authCtx>>
    \/ \E st \in IssueStates : SetIssueState(st) /\ UNCHANGED <<db, authCtx>>
    \/ ClearSearch /\ UNCHANGED <<db, authCtx>>
    \/ LoadMoreIssues /\ UNCHANGED <<db, authCtx>>
    \/ \E p \in Procs : CacheGet(p) /\ UNCHANGED <<viewVars, db>>
    \/ \E p \in Procs : AuthGet(p) /\ UNCHANGED <<viewVars, db>>
    \/ \E p \in Procs : FetchFails(p) /\ UNCHANGED <<viewVars, db>>
    \/ \E i \in 1..Len(inflight) :
          /\ pc[inflight[i].proc] = "fetch"
          /\ \E resp \in ViewResponses(inflight[i]) :
                FetchResolves(inflight[i].proc, resp) /\ UNCHANGED <<viewVars, db>>
    \/ \E p \in Procs : JsonResolves(p) /\ UNCHANGED <<viewVars, db>>
    \/ \E p \in Procs : CachePut(p) /\ UNCHANGED <<viewVars, db>>
    \/ \E i \in 1..Len(inflight) :
          /\ Answered(i) /\ Settlement(i).kind = "return"
          /\ LoadResolves(i, Settlement(i).value) /\ UNCHANGED <<db, authCtx>>
    \/ \E i \in 1..Len(inflight), err \in ViewErrors :
          Answered(i) /\ LoadFails(i, err) /\ UNCHANGED <<db, authCtx>>
    \/ \E i \in 1..Len(inflight) :
          /\ Answered(i) /\ Settlement(i).kind = "return"
          /\ MoreResolves(i, Settlement(i).value) /\ UNCHANGED <<db, authCtx>>
    \/ \E i \in 1..Len(inflight), err \in ViewErrors :
          Answered(i) /\ MoreFails(i, err) /\ UNCHANGED <<db, authCtx>>

ViewSpec == ViewInit /\ [][ViewNext]_vars

\* Invocation p of the client goes on: the database opens, a transaction
\* or the network answers, the view's continuation runs
Proceeds(p) ==
    \/ DBOpens /\ UNCHANGED viewVars
    \/ (CacheGet(p) \/ AuthGet(p) \/ FetchFails(p) \/ JsonResolves(p) \/ CachePut(p))
          /\ UNCHANGED <<viewVars, db>>
    \/ \E i \in 1..Len(inflight) :
          /\ inflight[i].proc = p
          /\ \/ /\ pc[p] = "fetch"
                /\ \E resp \in ViewResponses(inflight[i]) :
                      FetchResolves(p, resp) /\ UNCHANGED <<viewVars, db>>
             \/ /\ Answered(i) /\ Settlement(i).kind = "return"
                /\ (LoadResolves(i, Settlement(i).value) \/ MoreResolves(i, Settlement(i).value))
                /\ UNCHANGED <<db, authCtx>>
             \/ /\ Answered(i)
                /\ \E err \in ViewErrors : LoadFails(i, err) \/ MoreFails(i, err)
                /\ UNCHANGED <<db, authCtx>>

\* Some call of the client in flight goes on
SomeCallProceeds == \E p \in Procs : Proceeds(p)

\* The next render will run the load effect: a dependency as set differs
\* from the one rendered
LoadPending ==
    <<ui.issueState, ui.debouncedSearchQuery>>
       # <<rendered.issueState, rendered.debouncedSearchQuery>>

\* The runs of a list view with at most MaxLiveCalls calls of the client,
\* the call of a load effect that is still to run counted in
ViewLiveNext ==
    ViewNext /\ calls' + (IF LoadPending' THEN 1 ELSE 0) <= MaxLiveCalls

\* React renders while updates are queued: the render alone, or with the
\* effects it runs or at the end of the event that came before it
Rendering ==
    /\ rendered # ui
    /\ \/ /\ rendered' = ui
          /\ UNCHANGED <<clientVars, route, ui, timer, inflight, db, authCtx>>
       \/ rendered' # rendered

\* The list views when the calls of the client terminate and React's
\* scheduler runs: while a call is in flight the database opens, a
\* transaction completes, the browser's fetch resolves or rejects, the body
\* is read or a continuation runs; and while updates are queued a render
\* takes place.  Nothing is assumed of the user or of the timer
ViewLiveSpec ==
    /\ ViewInit
    /\ [][ViewLiveNext]_vars
    /\ WF_vars(SomeCallProceeds)
    /\ WF_vars(Rendering)

-----------------------------------------------------------------------------
(* Properties *)

KeyOf(p) == CacheKey(EndpointOf(call[p]))

Range(s) == {s[i] : i \in 1..Len(s)}

CacheableOps == {"getAuthenticatedUser", "getRepository"}
Blank(s) == \A i \in 1..Len(s) : IsSpace(s[i])

\* t is s without its leading and trailing white space
IsTrimOf(t, s) ==
    /\ t = << >> \/ (~Blank(<<t[1]>>) /\ ~Blank(<<t[Len(t)]>>))
    /\ \E i \in 1..(Len(s) + 1), j \in 0..Len(s) :
          /\ t = SubSeq(s, i, j)
          /\ Blank(SubSeq(s, 1, i - 1))
          /\ Blank(SubSeq(s, j + 1, Len(s)))

\* C1: request() with useCache=true looks the key up first; a live entry
\* (now <= expiresAt at lookup time) is returned as it is stored, with no
\* network call, no credential read and no cache write, and nothing follows
\* the return; an expired entry is not returned by the lookup.
C1_CacheFirst ==
    [][\A p \in Procs :
        /\ (pc[p] = "idle" /\ call'[p].op \in CacheableOps) => pc'[p] = "cacheGet"
        /\ (pc[p] = "cacheGet" /\ pc'[p] # "cacheGet" /\ dbPromise = "open"
                /\ cache[KeyOf(p)] # None)
           => LET entry == cache[KeyOf(p)][1]
              IN  IF now <= entry.expiresAt
                  THEN /\ pc'[p] = "done"
                       /\ loc'[p].out = Returned(entry.data)
                       /\ loc'[p].sent = << >>
                       /\ loc'[p].did = <<"cacheGet">>
                       /\ UNCHANGED <<cache, auth, rateLimitInfo>>
                  ELSE /\ pc'[p] # "done"
                       /\ loc'[p].out = None
        /\ (pc[p] = "done" /\ pc'[p] # "done")
           => pc'[p] = "idle" /\ UNCHANGED <<cache, auth, rateLimitInfo>>
      ]_vars

\* C2: cache round trip.  A successful cacheable request stores the payload
\* it returns with expiresAt = now + T (T = 60 s for getAuthenticatedUser,
\* 5 min otherwise), now being the clock as the entry is built, which is
\* when db.put is called; a request reading that entry no later than T after
\* that instant returns the stored payload with no network call; one reading
\* it later misses, deletes the entry, makes exactly one network call and,
\* when it returns a payload, has stored it anew.
C2_CacheRoundTrip ==
    [][\A p \in Procs :
        LET key == KeyOf(p)
            T == IF call[p].op = "getAuthenticatedUser" THEN 60 * 1000 ELSE 5 * 60 * 1000
        IN  /\ (pc'[p] = "cachePut" /\ loc'[p].stamp # loc[p].stamp)
               => loc'[p].stamp = Some(now)
            /\ (pc[p] = "cachePut" /\ pc'[p] # "cachePut" /\ dbPromise = "open")
               => /\ loc[p].stamp # None
                  /\ cache'[key] = Some([key |-> key, data |-> loc[p].data[1],
                                         expiresAt |-> loc[p].stamp[1] + T])
                  /\ loc'[p].out = Returned(loc[p].data[1])
            /\ (pc[p] = "cacheGet" /\ pc'[p] # "cacheGet" /\ dbPromise = "open"
                    /\ cache[key] # None)
               => LET writtenAt == cache[key][1].expiresAt - T
                  IN  IF now - writtenAt <= T
                      THEN /\ loc'[p].out = Returned(cache[key][1].data)
                           /\ loc'[p].sent = << >>
                      ELSE /\ pc'[p] = "cacheDelete"
                           /\ loc'[p].out = None
            /\ (pc[p] = "cacheDelete" /\ pc'[p] # "cacheDelete")
               => cache'[key] = None /\ pc'[p] = "authGet"
            /\ (pc[p] # "done" /\ pc'[p] = "done" /\ "cacheDelete" \in Range(loc'[p].did))
               => /\ Len(loc'[p].sent) = 1
                  /\ loc'[p].out[1].kind = "return" => pc[p] = "cachePut"
      ]_vars

\* C3: on a response that is not ok request() throws the typed error with the
\* response's status and the body's message, or "HTTP <status>" when the body
\* is empty, not JSON or has no message; it made one network call and left
\* the cache as it was.
C3_TypedError ==
    [][\A p \in Procs, resp \in Responses :
        (/\ pc[p] = "json" /\ loc[p].response = Some(resp)
         /\ resp.status \notin 200..299 /\ JsonResolves(p))
        => /\ pc'[p] = "done"
           /\ loc'[p].out # None
           /\ loc'[p].out[1].kind = "throw"
           /\ loc'[p].out[1].value.type = "ApiError"
           /\ loc'[p].out[1].value.status = resp.status
           /\ loc'[p].out[1].value.message =
                 IF resp.body.kind = "object" /\ resp.body.message # None
                 THEN resp.body.message[1]
                 ELSE "HTTP " \o ToString(resp.status)
           /\ Len(loc'[p].sent) = 1
           /\ "cachePut" \notin Range(loc'[p].did)
           /\ cache' = cache
      ]_vars

WellFormedHeader(h) ==
    h # None /\ h[1] # << >> /\ \A i \in 1..Len(h[1]) : h[1][i] \in Range(Digits)

\* C4: when a response carries the four rate-limit headers, all well-formed,
\* the snapshot becomes exactly their four integers; when one is missing or
\* malformed the snapshot stays as it was.
C4_RateLimitParsing ==
    [][\A p \in Procs, resp \in Responses :
        (pc[p] = "fetch" /\ FetchResolves(p, resp))
        => LET h == resp.headers
           IN  IF /\ WellFormedHeader(h.limit) /\ WellFormedHeader(h.remaining)
                  /\ WellFormedHeader(h.reset) /\ WellFormedHeader(h.used)
               THEN rateLimitInfo' = Some([limit |-> Num(DecValue(h.limit[1])),
                                           remaining |-> Num(DecValue(h.remaining[1])),
                                           reset |-> Num(DecValue(h.reset[1])),
                                           used |-> Num(DecValue(h.used[1]))])
               ELSE rateLimitInfo' = rateLimitInfo
      ]_vars

\* C5: request() issues its network call right after reading the credential,
\* with Authorization: Bearer <accessToken> when one is stored at that moment
\* and with no Authorization header when none is; it issues none elsewhere.
C5_BearerIffCredential ==
    [][\A p \in Procs :
        /\ (call[p].op \in RequestOps /\ pc[p] = "authGet" /\ pc'[p] # "authGet"
                /\ dbPromise = "open")
           => /\ pc'[p] = "fetch"
              /\ loc'[p].sent =
                    <<IF auth = None THEN None
                      ELSE Some(<<"B", "e", "a", "r", "e", "r", " ">> \o auth[1].accessToken)>>
        /\ (call'[p].op \in RequestOps /\ Len(loc'[p].sent) > Len(loc[p].sent))
           => pc[p] = "authGet" /\ dbPromise = "open"
      ]_vars

\* C5 witness: a request is on the network with the stored token as bearer
C5_Witness ==
    \E p \in Procs :
        /\ pc[p] = "fetch"
        /\ call[p].op \in RequestOps
        /\ auth # None
        /\ loc[p].sent = <<Some(BearerPrefix \o auth[1].accessToken)>>

\* C6: every searchIssues / searchPullRequests call that has completed made
\* its network call, did not touch the cache, and returned what the network
\* answered or threw what the network call gave.
C6_SearchBypassesCache ==
    \A p \in Procs :
        (pc[p] = "done" /\ call[p].op \in SearchOps)
        => /\ Len(loc[p].sent) = 1
           /\ loc[p].did = <<"authGet", "fetch">>

\* C7: a storage failure is never the outcome of a request(): with the
\* database unavailable the request still makes its network call.
C7_StorageFailureDegrades ==
    \A p \in Procs :
        (pc[p] = "done" /\ call[p].op \in RequestOps)
        => /\ loc[p].out # Thrown(StorageError)
           /\ Len(loc[p].sent) = 1 \/ loc[p].did = <<"cacheGet">>

\* C8: a login whose probe had a success status stores the credential
\* (accessToken the trimmed token, tokenType "bearer") in the one slot and
\* returns {success: true}; isLoggedIn() then answers whether one is stored.
C8_LoginPersists ==
    [][\A p \in Procs :
        /\ (/\ pc[p] = "probe" /\ call[p].op = "loginWithToken"
            /\ \E resp \in Responses : resp.status \in 200..299 /\ ProbeResolves(p, resp))
           => pc'[p] = "authPut"
        /\ (pc[p] = "authPut" /\ pc'[p] # "authPut")
           => /\ auth' # None
              /\ IsTrimOf(auth'[1].accessToken, call[p].token)
              /\ auth'[1].tokenType = "bearer"
              /\ loc'[p].out = Returned([success |-> TRUE, error |-> None])
        /\ (call[p].op = "isLoggedIn" /\ pc[p] = "authGet" /\ pc'[p] # "authGet"
                /\ dbPromise = "open")
           => loc'[p].out = Returned(auth # None)
      ]_vars

\* C9: a login with a non-empty token whose probe fails, by its status or on
\* the network, returns {success: false, error} and changes nothing in the
\* store: no step of it touches the database.
C9_FailedLoginPersistsNothing ==
    [][\A p \in Procs :
        /\ (/\ pc[p] = "probe" /\ call[p].op = "loginWithToken"
            /\ \/ ProbeFails(p)
               \/ \E resp \in Responses : resp.status \notin 200..299 /\ ProbeResolves(p, resp))
           => /\ pc'[p] = "done"
              /\ loc'[p].out # None
              /\ loc'[p].out[1].kind = "return"
              /\ loc'[p].out[1].value.success = FALSE
              /\ loc'[p].out[1].value.error \notin {None, Some("")}
              /\ "authPut" \notin Range(loc'[p].did)
              /\ UNCHANGED <<auth, cache, dbPromise>>
        /\ (pc[p] = "idle" /\ \E raw \in RawTokens : StartLogin(p, raw))
           => UNCHANGED <<auth, cache, dbPromise>>
      ]_vars

\* C9 witness: a login was refused after its probe while a credential from
\* an earlier login is stored
C9_Witness ==
    \E p \in Procs :
        /\ pc[p] = "done"
        /\ call[p].op = "loginWithToken"
        /\ Len(loc[p].sent) = 1
        /\ loc[p].out = Returned([success |-> FALSE,
                                  error |-> Some("Invalid token. Please check and try again.")])
        /\ auth # None

\* C10: a login with an empty or white-space-only token returns
\* {success: false, error: "Please enter a token"} in its first step, with
\* no network call and the store untouched.
C10_EmptyTokenRefused ==
    [][\A p \in Procs, raw \in RawTokens :
        (pc[p] = "idle" /\ Blank(raw) /\ StartLogin(p, raw))
        => /\ pc'[p] = "done"
           /\ loc'[p].out = Returned([success |-> FALSE,
                                      error |-> Some("Please enter a token")])
           /\ loc'[p].sent = << >>
           /\ loc'[p].did = << >>
           /\ UNCHANGED <<auth, cache, dbPromise, rateLimitInfo>>
      ]_vars

\* C10 witness: a white-space-only token was refused
C10_Witness ==
    \E p \in Procs :
        /\ pc[p] = "done"
        /\ call[p].op = "loginWithToken"
        /\ call[p].token # << >>
        /\ Blank(call[p].token)
        /\ loc[p].out = Returned([success |-> FALSE, error |-> Some("Please enter a token")])
        /\ loc[p].sent = << >>

\* C11: logout() succeeds and leaves no credential, whether or not one was
\* stored (so a second logout changes nothing), touching nothing else; and
\* isLoggedIn() answers true exactly when a credential is stored, so it
\* answers false once a logout has completed.
C11_LogoutIdempotent ==
    [][\A p \in Procs :
        /\ (pc[p] = "authDelete" /\ pc'[p] # "authDelete")
           => /\ loc'[p].out = Returned(None)
              /\ auth' = None
              /\ UNCHANGED <<cache, rateLimitInfo>>
        /\ (call[p].op = "isLoggedIn" /\ pc[p] = "authGet" /\ pc'[p] # "authGet")
           => loc'[p].out = Returned(auth # None)
      ]_vars

SuccessfulLogin(p) ==
    /\ pc[p] = "authPut" /\ pc'[p] = "done"
    /\ loc'[p].out = Returned([success |-> TRUE, error |-> None])

CompletedLogout(p) ==
    /\ pc[p] = "authDelete" /\ pc'[p] = "done"
    /\ loc'[p].out = Returned(None)

\* C12: the auth store holds at most one credential.  The step that completes
\* a successful login leaves the store holding that login's trimmed token,
\* the step that completes a logout leaves it empty, and no other step
\* changes it: the store always holds the token of the most recent
\* successful login unless a logout completed after it.
C12_CredentialSingleton ==
    [][/\ Len(auth') <= 1
       /\ \A p \in Procs :
            /\ SuccessfulLogin(p)
               => /\ auth' # None
                  /\ IsTrimOf(auth'[1].accessToken, call[p].token)
            /\ CompletedLogout(p) => auth' = None
       /\ auth' # auth => \E p \in Procs : SuccessfulLogin(p) \/ CompletedLogout(p)
      ]_vars

\* C12 witness: a login has completed and its token is the one stored, while
\* a second login with another token is about to store its own
C12_Witness ==
    \E p, q \in Procs :
        /\ pc[p] = "done"
        /\ call[p].op = "loginWithToken"
        /\ loc[p].out = Returned([success |-> TRUE, error |-> None])
        /\ auth # None
        /\ IsTrimOf(auth[1].accessToken, call[p].token)
        /\ pc[q] = "authPut"
        /\ ~IsTrimOf(auth[1].accessToken, call[q].token)

\* C13: validateToken returns true exactly when the probe's status is a
\* success status and false on any other status and on a network failure;
\* it never throws, and no step of a probe changes the credential, the cache
\* or the rate-limit snapshot.
C13_ValidateToken ==
    [][\A p \in Procs :
        /\ (pc[p] = "probe" /\ call[p].op = "validateToken")
           => /\ \A resp \in Responses :
                    ProbeResolves(p, resp)
                    => /\ pc'[p] = "done"
                       /\ loc'[p].out = Returned(resp.status \in 200..299)
              /\ ProbeFails(p)
                    => /\ pc'[p] = "done"
                       /\ loc'[p].out = Returned(FALSE)
        /\ ((pc[p] = "probe" \/ pc'[p] = "probe") /\ pc'[p] # pc[p])
           => UNCHANGED <<auth, cache, rateLimitInfo>>
      ]_vars

\* C13 witness: a probe made while a credential is stored has answered true,
\* and the credential is still the stored one
C13_Witness ==
    \E p \in Procs :
        /\ pc[p] = "done"
        /\ call[p].op = "validateToken"
        /\ loc[p].out = Returned(TRUE)
        /\ Len(loc[p].sent) = 1
        /\ auth # None

\* C22: of two concurrent cacheable requests for one endpoint that both
\* missed, each makes its own network call, takes its own response to the
\* cache write and returns it; each write leaves exactly that writer's
\* payload and expiresAt (the TTL after the instant it built the entry)
\* under the key, so the later writer's entry stays.
C22_ConcurrentMisses ==
    [][\A p \in Procs :
        (call[p].op \in CacheableOps /\ dbPromise = "open")
        => /\ \A q \in Procs \ {p} :
                (call[q].op = call[p].op /\ pc[q] \in {"authGet", "fetch", "json", "cachePut"})
                => /\ (pc[p] = "authGet" /\ pc'[p] # "authGet")
                      => /\ pc'[p] = "fetch"
                         /\ Len(loc[p].sent) = 0 /\ Len(loc'[p].sent) = 1
                   /\ pc[p] = "fetch"
                      => \A resp \in Responses :
                            (resp.status \in 200..299 /\ FetchResolves(p, resp))
                            => pc'[p] = "json" /\ loc'[p].response = Some(resp)
                   /\ (pc[p] = "json" /\ IsOk(loc[p].response[1].status) /\ JsonResolves(p))
                      => /\ pc'[p] = "cachePut"
                         /\ loc'[p].data = Some(loc[p].response[1].body)
           /\ (pc[p] = "cachePut" /\ pc'[p] # "cachePut")
              => /\ loc'[p].out = Returned(loc[p].data[1])
                 /\ cache'[KeyOf(p)] =
                       Some([key |-> KeyOf(p), data |-> loc[p].data[1],
                             expiresAt |-> loc[p].stamp[1]
                                           + (IF call[p].op = "getAuthenticatedUser"
                                              THEN 60000 ELSE 300000)])
                 /\ \A k \in DOMAIN cache \ {KeyOf(p)} : cache'[k] = cache[k]
      ]_vars

\* C22 witness: two requests for one endpoint both missed and both fetched;
\* the first has written and returned its payload, the second is about to
\* write a different one over it
C22_Witness ==
    \E p \in Procs : \E q \in Procs \ {p} :
        /\ call[p].op \in CacheableOps
        /\ call[q].op = call[p].op
        /\ pc[p] = "done"
        /\ loc[p].did = <<"cacheGet", "authGet", "fetch", "cachePut">>
        /\ cache[KeyOf(p)] # None
        /\ loc[p].out = Returned(cache[KeyOf(p)][1].data)
        /\ pc[q] = "cachePut"
        /\ loc[q].did = <<"cacheGet", "authGet", "fetch">>
        /\ loc[q].data # Some(cache[KeyOf(p)][1].data)

\* C23: expiry sweep.  A sweep at time t, the value of the clock the sweep
\* reads once the database is open and before it opens its cursor, deletes
\* every cache entry with expiresAt <= t and no entry with expiresAt > t,
\* however far the clock has moved when the cursor is done; the entries that
\* stay keep their key, data and expiresAt, and the auth store is
\* untouched.
C23_ExpirySweep ==
    [][\A p \in Procs :
        /\ (pc'[p] = "sweep" /\ loc'[p].stamp # loc[p].stamp)
           => /\ loc'[p].stamp = Some(now)
              /\ dbPromise' = "open"
              /\ cache' = cache /\ auth' = auth
        /\ (pc[p] = "sweep" /\ pc'[p] # "sweep" /\ dbPromise = "open")
           => /\ loc[p].stamp # None
              /\ \A k \in DOMAIN cache :
                    IF cache[k] # None /\ cache[k][1].expiresAt > loc[p].stamp[1]
                    THEN cache'[k] = cache[k]
                    ELSE cache'[k] = None
              /\ auth' = auth
              /\ loc'[p].out = Returned(None)
      ]_vars

\* C23 witness: a sweep read the clock at the very instant one entry
\* expired, and the clock had reached the expiry of a second entry when its
\* cursor was done; the first entry is gone, the second is still stored,
\* and so is the credential
C23_Witness ==
    \E p \in Procs :
        /\ pc[p] = "done"
        /\ loc[p].did = <<"sweep">>
        /\ loc[p].stamp = Some(UserCacheTtl)
        /\ now = DefaultCacheTtl
        /\ loc[p].data = Some({CacheKey("/user")})
        /\ cache[CacheKey("/user")] = None
        /\ cache[CacheKey("/repos/o/r")] # None
        /\ cache[CacheKey("/repos/o/r")][1].expiresAt = DefaultCacheTtl
        /\ auth # None

\* The awaits of getDB(): the invocations suspended on dbPromise
AwaitsDB(p) == pc[p] \in {"cacheGet", "authGet", "cachePut", "authPut", "authDelete"}

\* C24: the database is opened lazily and once.  Nothing is opened until a
\* store operation starts; the first one creates the promise, every later
\* one finds it, it settles once and is never replaced; and every caller
\* suspended on it resumes only when that one promise has settled.
C24_OneOpen ==
    [][/\ dbPromise' # dbPromise
          => \/ /\ dbPromise = "null" /\ dbPromise' = "pending"
                /\ \E p \in Procs : pc[p] \in {"idle", "json", "probe"} /\ AwaitsDB(p)'
             \/ dbPromise = "pending" /\ dbPromise' \in {"open", "rejected"}
       /\ \A p \in Procs :
            /\ AwaitsDB(p)' => dbPromise' # "null"
            /\ (AwaitsDB(p) /\ pc'[p] # pc[p]) => dbPromise \in {"open", "rejected"}
       /\ db' # db => dbPromise = "pending" /\ dbPromise' = "open"
      ]_vars

\* C24 witness: two store operations started before the open completed and
\* both are suspended on the one pending promise
C24_Witness ==
    /\ dbPromise = "pending"
    /\ \A p \in Procs : AwaitsDB(p)
    /\ db = FreshDatabase

\* C40: the open is attempted at most once even when it fails: the rejected
\* promise is retained, no new attempt is made, and every store operation
\* that resumes after the failure fails with that error, the stores and the
\* database untouched.
C40_FailedOpenIsRetained ==
    [][dbPromise = "rejected"
       => /\ dbPromise' = "rejected"
          /\ db' = db /\ auth' = auth /\ cache' = cache
          /\ \A p \in Procs :
                (AwaitsDB(p) /\ pc'[p] # pc[p])
                => pc'[p] = "done" /\ loc'[p].out = Thrown(StorageError)
          /\ \A p \in Procs :
                (~AwaitsDB(p) /\ AwaitsDB(p)') => UNCHANGED dbPromise
      ]_vars

\* C40 witness: the open has failed, one operation has been told so and is
\* over, and the operation after it has failed with the same error
C40_Witness ==
    /\ dbPromise = "rejected"
    /\ calls = 2
    /\ pc["p2"] = "idle"
    /\ pc["p1"] = "done"
    /\ call["p1"].op \in {"isLoggedIn", "getRepository", "loginWithToken"}
    /\ loc["p1"].out = Thrown(StorageError)

\* C28: schema migration.  When the open of a database of an earlier version
\* (none, or version 1) completes, the database has the stores "auth" and
\* "cache", the latter with its index "by-expiry", and no store "pkce"; a
\* store that existed was not created anew: its records are as they were.
C28_SchemaMigration ==
    [][(dbPromise = "pending" /\ dbPromise' = "open")
        => /\ db'.objectStoreNames = {"auth", "cache"}
           /\ "by-expiry" \in db'.indexNames
           /\ db'.version = 2
           /\ "auth" \in db.objectStoreNames => auth' = auth
           /\ "cache" \in db.objectStoreNames => cache' = cache
           /\ "auth" \notin db.objectStoreNames => auth' = None
           /\ "cache" \notin db.objectStoreNames => \A k \in DOMAIN cache' : cache'[k] = None
      ]_vars

\* C28 witness: a version 1 database holding a credential, a cached response
\* and the old store has been opened: upgraded, the old store gone, the
\* records in place
C28_Witness ==
    /\ dbPromise = "open"
    /\ db.oldVersion = Some(1)
    /\ db.version = 2
    /\ "pkce" \notin db.objectStoreNames
    /\ auth # None
    /\ \E k \in DOMAIN cache : cache[k] # None

\* C25: getReadmeWithContent resolves to null exactly when the readme fetch
\* was answered with 404; it rejects with the error of the fetch, unchanged,
\* on 403, 500 and a network failure; and it resolves to {content, name}
\* when the fetch succeeded.
C25_ReadmeNullOn404 ==
    \A p \in Procs :
        (call[p].op = "getReadmeWithContent" /\ loc[p].result # None)
        => LET result == loc[p].result[1]
           IN  /\ (result.kind = "return" /\ result.value = None) <=> (loc[p].status = Some(404))
               /\ (loc[p].status \in {Some(403), Some(500)} \/ loc[p].out = Thrown(FetchFailure))
                  => result.kind = "throw" /\ result = loc[p].out[1]
               /\ loc[p].status = Some(200)
                  => /\ result.kind = "return"
                     /\ result.value # None
                     /\ DOMAIN result.value[1] = {"content", "name"}

\* C31: cached responses are isolated per credential: once a logout or a
\* login with another token has completed, request() returns no payload that
\* was fetched under the previous credential.  The calls of a session follow
\* one another, so what a request returns is what the server gives to the
\* credential stored while the request ran.
C31_CachePerCredential ==
    \A p \in Procs :
        (/\ pc[p] = "done"
         /\ call[p].op \in {"getAuthenticatedUser", "getRepository"}
         /\ loc[p].out[1].kind = "return")
        => loc[p].out[1].value.authorization
              = (IF auth = None THEN None
                 ELSE Some(<<"B", "e", "a", "r", "e", "r", " ">> \o auth[1].accessToken))

\* C32: the lazy eviction on read deletes only expired entries: whatever
\* the interleaving of the requests for a key, the delete a request issues
\* after it read an expired entry removes no entry that is not expired (one
\* that another request wrote in between).
C32_EvictionDeletesOnlyExpired ==
    [][\A p \in Procs :
          (pc[p] = "cacheDelete" /\ pc'[p] # "cacheDelete")
          => LET entry == cache[KeyOf(p)]
             IN  entry # None /\ cache'[KeyOf(p)] = None
                 => now > entry[1].expiresAt
      ]_vars

\* No function of the provider or of the form is running, the check is over
ProviderAtRest ==
    /\ authCtx.mounted
    /\ ~authCtx.isLoading
    /\ \A p \in Procs : authCtx.task[p] = "none"

\* C33: the auth context agrees with the store: once the mount-time check
\* or a refreshUser() call has settled, isAuthenticated is true exactly when
\* a credential is stored, so a request made while the context reports the
\* user as signed out carries no Authorization header.
C33_ContextAgreesWithStore ==
    /\ [](ProviderAtRest => (authCtx.isAuthenticated <=> auth # None))
    /\ [][\A p \in Procs :
             (/\ ProviderAtRest /\ ~authCtx.isAuthenticated
              /\ pc[p] = "authGet" /\ pc'[p] = "fetch")
             => loc'[p].sent = <<None>>
         ]_vars

\* C34: pagination terminates: in both modes a successful load-more that
\* returns zero items sets hasMore to false.
C34_EmptyPageEndsPagination ==
    [][Len(inflight') < Len(inflight)
       => \A i \in 1..Len(inflight) :
             (/\ inflight[i].kind = "more"
              /\ Answered(i) /\ Settlement(i).kind = "return"
              /\ Len(Settlement(i).value.items) = 0
              /\ MoreResolves(i, Settlement(i).value))
             => ~ui'.hasMore
      ]_vars

\* C35: no list view stays busy forever: when every fetch terminates, each
\* entry into the loading state is followed by success or error, and the
\* loadingMore flag a load-more sets is reset whether its fetch succeeds or
\* fails; the view state is always one of loading, success, error.  This
\* holds of the state as set and of the state rendered, the skeleton and
\* the disabled button the user sees.
\* (P ~> ~P says the same as []<>~P: the view is out of the loading state
\* again and again, and loadingMore is false again and again.)
C35_NoViewStaysBusy ==
    /\ [](ui.state \in {"loading", "success", "error"})
    /\ [](rendered.state \in {"loading", "success", "error"})
    /\ []<>(ui.state \in {"success", "error"})
    /\ []<>(~ui.loadingMore)
    /\ []<>(rendered.state \in {"success", "error"})
    /\ []<>(~rendered.loadingMore)

\* A load-more has failed after a successful load, and the view is at rest:
\* the list is rendered with the button enabled again
C35_Witness ==
    /\ rendered = ui
    /\ ui.state = "success"
    /\ ui.error # None
    /\ ~ui.loadingMore
    /\ inflight = << >>

\* C37: rateLimitInfo is null at the start and changes only when request()
\* receives a network response, whatever its status, the update coming
\* before the status is examined; a cache hit, a transport failure and the
\* validateToken probe leave it unchanged.
C37_RateLimitFrame ==
    /\ rateLimitInfo = None
    /\ [][rateLimitInfo' # rateLimitInfo
          => \E p \in Procs :
                /\ pc[p] = "fetch"
                /\ pc'[p] # "fetch"
                /\ loc'[p].status # None
         ]_vars
    /\ [][\A p \in Procs :
             (pc[p] = "fetch" /\ pc'[p] # "fetch")
             => \A resp \in Responses :
                   FetchResolves(p, resp)
                   => rateLimitInfo' = UpdateRateLimitInfo(rateLimitInfo, resp.headers)
         ]_vars
    /\ [][\A p \in Procs :
             \/ pc[p] = "cacheGet" /\ pc'[p] = "done"
             \/ pc[p] = "fetch" /\ pc'[p] = "done" /\ loc'[p].status = None
             \/ pc[p] = "probe" /\ pc'[p] # "probe"
             => rateLimitInfo' = rateLimitInfo
         ]_vars

\* The first call of the page was answered 403 with the four headers, and
\* the snapshot is set
C37_Witness ==
    /\ calls = 1
    /\ pc["p1"] = "done"
    /\ call["p1"].op \in RequestOps
    /\ loc["p1"].status = Some(403)
    /\ rateLimitInfo # None

\* C38: read and sweep agree on expiry: a sweep at time t (the clock as the
\* sweep read it) deletes an entry exactly when a read at t would treat it
\* as expired; it never deletes an entry that a read at the same instant
\* would return.
C38_ReadAndSweepAgree ==
    [][\A p \in Procs :
          (pc[p] = "sweep" /\ pc'[p] = "done" /\ loc'[p].out[1].kind = "return")
          => \A k \in CacheKeys :
                cache[k] # None
                => (cache'[k] = None <=> IsExpired(cache[k][1], loc[p].stamp[1]))
      ]_vars

\* The pieces of s between the separators
RECURSIVE SplitOn(_, _)
SplitOn(s, sep) ==
    IF \A i \in 1..Len(s) : s[i] # sep THEN <<s>>
    ELSE LET i == CHOOSE j \in 1..Len(s) : s[j] = sep /\ \A k \in 1..(j - 1) : s[k] # sep
         IN  <<SubSeq(s, 1, i - 1)>> \o SplitOn(SubSeq(s, i + 1, Len(s)), sep)

\* A query string component as the server reads it: "+" is a space, "%XY"
\* the character of that code
RECURSIVE FormDecode(_)
FormDecode(s) ==
    IF s = << >> THEN << >>
    ELSE IF Head(s) = "+" THEN <<" ">> \o FormDecode(Tail(s))
    ELSE IF Head(s) = "%"
    THEN <<Ascii[((HexVal(s[2]) * 16) + HexVal(s[3])) - 31]>> \o FormDecode(SubSeq(s, 4, Len(s)))
    ELSE <<Head(s)>> \o FormDecode(Tail(s))

\* The name=value pairs of a query string
QueryPairs(qs) ==
    LET parts == SplitOn(qs, "&")
    IN  [i \in 1..Len(parts) |->
            LET nv == SplitOn(parts[i], "=")
            IN  <<FormDecode(nv[1]), FormDecode(nv[2])>>]

\* C26: searchIssues / searchPullRequests request /search/issues with q =
\* "repo:<owner>/<repo> type:issue" (resp. "type:pr"), then " state:<state>"
\* exactly when the state is not "all", then a space and the trimmed text
\* exactly when the text is not blank; and with the page and per_page given.
C26_SearchQuery ==
    \A p \in Procs :
        call[p].op \in SearchOps
        => LET c == call[p]
               type == IF c.op = "searchIssues" THEN <<"i", "s", "s", "u", "e">> ELSE <<"p", "r">>
               text == CHOOSE t \in {SubSeq(c.query, i, j) :
                                        i \in 1..(Len(c.query) + 1), j \in 0..Len(c.query)} :
                          IsTrimOf(t, c.query)
               q == <<"r", "e", "p", "o", ":", "o", "/", "r", " ", "t", "y", "p", "e", ":">> \o type
                    \o (IF c.state # <<"a", "l", "l">> THEN <<" ", "s", "t", "a", "t", "e", ":">> \o c.state ELSE << >>)
                    \o (IF ~Blank(c.query) THEN <<" ">> \o text ELSE << >>)
               pairs == QueryPairs(SubSeq(c.endpoint, 16, Len(c.endpoint)))
           IN  /\ SubSeq(c.endpoint, 1, 15) = <<"/", "s", "e", "a", "r", "c", "h", "/", "i", "s", "s", "u", "e", "s", "?">>
               /\ Len(pairs) = 3
               /\ pairs[1] = <<<<"q">>, q>>
               /\ pairs[2][1] = <<"p", "a", "g", "e">>
               /\ pairs[3][1] = <<"p", "e", "r", "_", "p", "a", "g", "e">>
               /\ \A i \in {2, 3} :
                    /\ pairs[i][2] # << >>
                    /\ \A k \in 1..Len(pairs[i][2]) : IsDigit(pairs[i][2][k])
                    /\ Len(pairs[i][2]) > 1 => pairs[i][2][1] # "0"
               /\ DecValue(pairs[2][2]) = c.page
               /\ DecValue(pairs[3][2]) = c.perPage

\* C26 witness: searchPullRequests with state "all", the text " x " and page
\* 2 is on the network for q = "repo:o/r type:pr x"
C26_Witness ==
    \E p \in Procs :
        /\ pc[p] = "fetch"
        /\ call[p].op = "searchPullRequests"
        /\ call[p].state = <<"a", "l", "l">>
        /\ call[p].query = <<" ", "x", " ">>
        /\ call[p].endpoint =
              <<"/", "s", "e", "a", "r", "c", "h", "/", "i", "s", "s", "u", "e", "s", "?", "q", "=", "r", "e", "p", "o", "%", "3", "A", "o", "%", "2", "F", "r", "+", "t", "y", "p", "e", "%", "3", "A", "p", "r", "+", "x", "&", "p", "a", "g", "e", "=", "2", "&", "p", "e", "r", "_", "p", "a", "g", "e", "=", "3", "0">>

\* C27: when the readme's encoding is base64 and its content is the base64
\* of the UTF-8 bytes of a text (with or without the final line feed),
\* getReadmeWithContent returns exactly that text; content under any other
\* encoding is returned as it came.
C27_ReadmeDecoding ==
    \A p \in Procs :
        (/\ call[p].op = "getReadmeWithContent"
         /\ loc[p].result # None
         /\ loc[p].out[1].kind = "return")
        => LET readme == loc[p].out[1].value
               result == loc[p].result[1]
           IN  /\ readme.encoding = "base64"
                  => \A t \in ReadmeTexts :
                        readme.content \in {Base64Encode(Utf8Encode(t)),
                                            Base64Encode(Utf8Encode(t)) \o <<"\n">>}
                        => result = [kind |-> "return",
                                     value |-> <<[content |-> t, name |-> readme.name]>>]
               /\ readme.encoding # "base64"
                  => /\ result.kind = "return"
                     /\ result.value # None
                     /\ result.value[1].content = readme.content

\* C27 witness: the content "Y2Fmw6k=" and a line feed, base64 of the five
\* UTF-8 bytes of "café", has been decoded to the four code points c, a, f, é
C27_Witness ==
    \E p \in Procs :
        /\ call[p].op = "getReadmeWithContent"
        /\ loc[p].result # None
        /\ loc[p].out[1].kind = "return"
        /\ loc[p].out[1].value.encoding = "base64"
        /\ loc[p].out[1].value.content = <<"Y", "2", "F", "m", "w", "6", "k", "=", "\n">>
        /\ loc[p].result[1].kind = "return"
        /\ loc[p].result[1].value # None
        /\ loc[p].result[1].value[1].content = <<99, 97, 102, 233>>

-----------------------------------------------------------------------------
(* Properties of the list views, checked under ViewSpec *)

\* The client has resolved the call of fetch i, and the page it resolved with
Paged(i) == Answered(i) /\ Settlement(i).kind = "return"
Page(i) == Settlement(i).value

\* A step in which fetch i of the view is answered with a page
PageArrives(i, answer) == LoadResolves(i, answer) \/ MoreResolves(i, answer)

\* C14: when a fetch made with no free-text filter (listing endpoint) is
\* answered, initial or load-more, hasMore becomes (the number of items the
\* endpoint returned = 30), counted before pull requests are filtered out.
C14_UnfilteredHasMore ==
    [][\A i \in 1..Len(inflight) :
        (Paged(i) /\ Trim(inflight[i].query) = << >> /\ PageArrives(i, Page(i)))
        => ui'.hasMore = (Len(Page(i).items) = 30)
      ]_vars

\* C14 witness: the issues view shows the 29 issues of a full page of 30
\* items and offers more
C14_Witness ==
    /\ route.list = "issues"
    /\ rendered.state = "success"
    /\ Trim(rendered.debouncedSearchQuery) = << >>
    /\ inflight = << >>
    /\ Len(rendered.issues) = 29
    /\ rendered.hasMore

\* C15: when a fetch made with a free-text filter (search endpoint) is
\* answered, initial or load-more, hasMore becomes (the number of items
\* accumulated, the page just received included, < that answer's
\* total_count).
C15_FilteredHasMore ==
    [][\A i \in 1..Len(inflight) :
        (Paged(i) /\ Trim(inflight[i].query) # << >> /\ PageArrives(i, Page(i)))
        => ui'.hasMore = (Len(ui'.issues) < Page(i).total_count[1])
      ]_vars

\* C16: the issues view's list, as set and as rendered, never holds an item
\* with a pull_request reference, and a page of 5 items of which the 2nd and
\* 4th carry one contributes exactly the 1st, 3rd and 5th, in that order.
C16_IssuesExcludePullRequests ==
    [][route.list = "issues"
       => /\ \A k \in 1..Len(ui'.issues) : ~ui'.issues[k].pull_request
          /\ \A k \in 1..Len(rendered'.issues) : ~rendered'.issues[k].pull_request
          /\ \A i \in 1..Len(inflight) :
                (Paged(i) /\ Len(Page(i).items) = 5 /\ LoadResolves(i, Page(i)))
                => ui'.issues = <<Page(i).items[1], Page(i).items[3], Page(i).items[5]>>
      ]_vars

\* C16 witness: the issues view shows items 1, 3 and 5 of a page of 5
C16_Witness ==
    /\ route.list = "issues"
    /\ rendered.state = "success"
    /\ Len(rendered.issues) = 3
    /\ rendered.issues[1].n = 1 /\ rendered.issues[2].n = 3 /\ rendered.issues[3].n = 5

\* C17: load-more asks the endpoint of the current mode for page
\* currentPage + 1 (a call of the search operation when a filter is active,
\* of the listing operation otherwise); when it is answered the page's items
\* are appended to the accumulated ones, the page counter goes up by exactly
\* one, and hasMore is recomputed by the rule of the current mode.  The
\* mode is that of the state filter and debounced query rendered, for which
\* the list was loaded; the list and the counter are those set.
C17_LoadMoreAppends ==
    [][/\ LoadMoreIssues
          => /\ Len(inflight') > Len(inflight)
             /\ LET f == inflight'[Len(inflight) + 1]
                IN  /\ f.kind = "more"
                    /\ f.issueState = rendered.issueState
                    /\ f.query = rendered.debouncedSearchQuery
                    /\ f.page = ui.currentPage + 1
                    /\ pc[f.proc] = "idle" /\ pc'[f.proc] # "idle"
                    /\ call'[f.proc].op \in (IF Trim(rendered.debouncedSearchQuery) # << >>
                                             THEN {"searchIssues", "searchPullRequests"}
                                             ELSE {"getIssues", "getPullRequests"})
       /\ \A i \in 1..Len(inflight) :
            (Paged(i) /\ MoreResolves(i, Page(i)))
            => /\ SubSeq(ui'.issues, 1, Len(ui.issues)) = ui.issues
               /\ SubSeq(ui'.issues, Len(ui.issues) + 1, Len(ui'.issues))
                     = IssuesOnly(Page(i).items)
               /\ ui'.currentPage = ui.currentPage + 1
               /\ ui'.hasMore =
                     IF Trim(rendered.debouncedSearchQuery) # << >>
                     THEN Page(i).total_count # None
                          /\ Len(ui'.issues) < Page(i).total_count[1]
                     ELSE Len(Page(i).items) = 30
      ]_vars

\* A settled change of the query or a change of the state filter: a render
\* with a new debounced query or state filter
QueryChanges ==
    \/ rendered'.issueState # rendered.issueState
    \/ rendered'.debouncedSearchQuery # rendered.debouncedSearchQuery

\* C18: a state-filter change or a settled query change puts the view in
\* Loading with page counter 1 and hasMore false; and whenever the view goes
\* from Loading to Success its list is exactly page 1 of the results of the
\* state filter and query then current.
C18_ReloadDiscards ==
    [][/\ QueryChanges
          => /\ ui'.state = "loading"
             /\ ui'.currentPage = 1
             /\ ui'.hasMore = FALSE
       /\ (ui.state = "loading" /\ ui'.state = "success")
          => \A k \in 1..Len(ui'.issues) :
                /\ ui'.issues[k].issueState = rendered'.issueState
                /\ ui'.issues[k].query = Trim(rendered'.debouncedSearchQuery)
                /\ ui'.issues[k].page = 1
      ]_vars

\* C19: a failed initial or reload fetch puts the view in Error with a
\* non-empty message: on 404 the one naming owner/repo, on 403 the
\* rate-limit one, otherwise the error's own message or, when it has none, a
\* generic one; and whenever the error state is set or rendered, the error
\* card holds a non-empty message.
C19_LoadFailureShown ==
    /\ [][\A i \in 1..Len(inflight), err \in ViewErrors :
           (Answered(i) /\ LoadFails(i, err))
           => /\ ui'.state = "error"
              /\ ui'.error # None
              /\ ui'.error[1] # ""
              /\ err.status = Some(404) => ui'.error[1] = "Repository o/r not found."
              /\ err.status = Some(403)
                    => ui'.error[1] = "Rate limit exceeded. Please try again later or sign in."
              /\ (err.status \notin {Some(404), Some(403)} /\ err.message \notin {None, Some("")})
                    => ui'.error[1] = err.message[1]
         ]_vars
    /\ [](ui.state = "error" => ErrorCard(ui) \notin {None, Some("")})
    /\ [](rendered.state = "error" => DisplayedError \notin {None, Some("")})

\* C19 witness: the view shows the not-found message after a reload failed
\* with 404
C19_Witness ==
    /\ rendered.state = "error"
    /\ DisplayedError = Some("Repository o/r not found.")
    /\ rendered.issueState = "closed"
    /\ inflight = << >>

\* C20: a failed load-more leaves the accumulated list and the page counter
\* as they were, ends the load-more, and its error is shown to the user: the
\* state it sets is one whose render has the error card.
C20_MoreFailureKeepsItems ==
    [][\A i \in 1..Len(inflight), err \in ViewErrors :
        (Answered(i) /\ MoreFails(i, err))
        => /\ ui'.issues = ui.issues
           /\ ui'.currentPage = ui.currentPage
           /\ ui'.loadingMore = FALSE
           /\ ErrorCard(ui') # None
      ]_vars

\* The fetches a step starts
Started == {k \in 1..Len(inflight') : k > Len(inflight)}

\* C21: debounce.  At most one settle timer is pending; every change of the
\* typed query leaves exactly one pending timer, a 500 ms one armed for the
\* new value, so a pending timer always holds the input's resting value; a
\* timer that fires starts no fetch itself and sets the debounced query to
\* the value that has rested for its delay, and to no other; the debounced
\* query is set by a timer or by clearSearch only, and rendered as it was
\* set; a step starts at most one reload, when the render has a new
\* debounced query or state filter, and for those; a keystroke whose render
\* has no new debounced query starts no fetch.
C21_Debounce ==
    [][/\ Len(timer') <= 1
       /\ ui'.searchQuery # ui.searchQuery
          => timer' = <<[value |-> ui'.searchQuery, delay |-> 500]>>
       /\ timer' # << >> => timer'[1].value = ui'.searchQuery
       /\ rendered'.searchQuery = ui'.searchQuery
       /\ (timer # << >> /\ timer' = << >>)
          => /\ ui' = [ui EXCEPT !.debouncedSearchQuery = ui.searchQuery]
             /\ rendered' = rendered
             /\ inflight' = inflight
       /\ ui'.debouncedSearchQuery # ui.debouncedSearchQuery
          => \/ timer # << >> /\ timer' = << >>
             \/ /\ ui.searchQuery # << >>
                /\ ui'.searchQuery = << >>
                /\ ui'.debouncedSearchQuery = << >>
       /\ rendered'.debouncedSearchQuery # rendered.debouncedSearchQuery
          => rendered'.debouncedSearchQuery = ui'.debouncedSearchQuery
       /\ Cardinality({k \in Started : inflight'[k].kind = "load"}) <= 1
       /\ \A k \in Started :
             inflight'[k].kind = "load"
             => /\ QueryChanges
                /\ inflight'[k].query = rendered'.debouncedSearchQuery
                /\ inflight'[k].issueState = rendered'.issueState
       /\ (ui'.searchQuery # ui.searchQuery
              /\ rendered'.debouncedSearchQuery = rendered.debouncedSearchQuery)
          => inflight' = inflight
      ]_vars

\* C21 witness: the timer armed by the last keystroke has fired, its value
\* has been rendered and the one reload that started, for the resting value
\* "x", is the only fetch pending
C21_Witness ==
    /\ timer = << >>
    /\ rendered.searchQuery = <<"x">>
    /\ rendered.debouncedSearchQuery = <<"x">>
    /\ ui.debouncedSearchQuery = <<"x">>
    /\ ui.state = "loading"
    /\ Len(inflight) = 1
    /\ inflight[1].kind = "load"
    /\ inflight[1].query = <<"x">>

\* The (state filter, query) pairs of the requests the items of the list
\* answer
DisplayedPairs == {<<ui.issues[k].issueState, ui.issues[k].query>> : k \in 1..Len(ui.issues)}

\* C29: whenever a list view is in Success, no fetch is in flight and
\* nothing is left to render, the displayed items are the result of the
\* fetch issued for the current state filter and debounced query (the latest
\* request wins: the answer to a superseded reload never replaces the answer
\* to the newer one).
C29_LatestRequestWins ==
    (ui.state = "success" /\ rendered = ui /\ inflight = << >>)
    => DisplayedPairs \subseteq {<<ui.issueState, Trim(ui.debouncedSearchQuery)>>}

\* C30: a load-more in flight when the state filter or the query changes
\* never contaminates the new list: in every state all accumulated items
\* come from one (state filter, query) pair, and the page counter counts the
\* pages loaded of that pair: it changes only to 1 when a reload starts and
\* by one when the next page of the current pair has been loaded.
C30_LoadMoreIsolated ==
    /\ [](Cardinality(DisplayedPairs) <= 1)
    /\ [][ui'.currentPage # ui.currentPage
          => \/ ui'.currentPage = 1 /\ ui'.state = "loading"
             \/ \E i \in 1..Len(inflight) :
                   /\ inflight[i].kind = "more"
                   /\ inflight' = Without(inflight, i)
                   /\ inflight[i].issueState = rendered.issueState
                   /\ inflight[i].query = rendered.debouncedSearchQuery
                   /\ inflight[i].page = ui.currentPage + 1
                   /\ ui'.currentPage = ui.currentPage + 1
         ]_vars

\* C39: clearing the search sets the typed and the debounced query to empty
\* at once, in the state set and in the render of the click: the unfiltered
\* reload from page 1 starts in the same step, not after the 500 ms delay,
\* and the timer armed by the change, whose value is the debounced query
\* until it expires, causes no second fetch.
C39_ClearSearchReloadsAtOnce ==
    /\ [][(ui.searchQuery # << >> /\ ui'.searchQuery = << >> /\ ClearSearch)
          => /\ ui'.debouncedSearchQuery = << >>
             /\ rendered'.searchQuery = << >>
             /\ rendered'.debouncedSearchQuery = << >>
             /\ timer' = <<[value |-> << >>, delay |-> DebounceMs]>>
             /\ IF rendered.debouncedSearchQuery = << >>
                THEN inflight' = inflight /\ ui'.state = ui.state
                ELSE /\ ui'.state = "loading"
                     /\ ui'.currentPage = 1
                     /\ \E p \in Procs :
                           /\ inflight' = Append(inflight,
                                  [kind |-> "load", issueState |-> rendered.issueState,
                                   query |-> << >>, page |-> 1, length |-> 0, proc |-> p])
                           /\ call'[p].op \in {"getIssues", "getPullRequests"}
         ]_vars
    /\ [][(timer' = timer /\ timer # << >> /\ timer[1].value = ui.debouncedSearchQuery)
          => ui'.debouncedSearchQuery = ui.debouncedSearchQuery
         ]_vars
    /\ [][(timer # << >> /\ timer' = << >> /\ ui'.searchQuery = ui.searchQuery
           /\ timer[1].value = ui.debouncedSearchQuery)
          => inflight' = inflight /\ ui' = ui /\ rendered' = rendered
         ]_vars

\* The search has just been cleared: the unfiltered reload is in flight, the
\* filtered items are still in the DOM, and the timer of the change is still
\* pending
C39_Witness ==
    /\ ui.state = "loading"
    /\ rendered.state = "success"
    /\ rendered.searchQuery = << >>
    /\ rendered.debouncedSearchQuery = << >>
    /\ ui.debouncedSearchQuery = << >>
    /\ timer = <<[value |-> << >>, delay |-> DebounceMs]>>
    /\ rendered.issues # << >>
    /\ \A n \in 1..Len(rendered.issues) : rendered.issues[n].query # << >>
    /\ Len(inflight) = 1
    /\ inflight[1].kind = "load"
    /\ inflight[1].query = << >>
    /\ Operation(inflight[1]) = call[inflight[1].proc].op

\* The load-more fetches in flight
MoreInFlight == {i \in 1..Len(inflight) : inflight[i].kind = "more"}

\* C36: load-more is guarded: it issues no fetch when hasMore is false or
\* while another load-more is in flight, so at most one load-more fetch is in
\* flight; no page is requested or appended twice and none is skipped: a
\* load-more asks for the page after currentPage, its answer is appended when
\* currentPage is still the page before it, and a list replaced by the
\* answer of a reload (page 1) has currentPage 1, so that page 2 is next.
C36_LoadMoreGuarded ==
    /\ [](Cardinality(MoreInFlight) <= 1)
    /\ [][\A k \in Started :
             inflight'[k].kind = "more"
             => /\ ui.hasMore
                /\ ~ui.loadingMore
                /\ MoreInFlight = {}
                /\ inflight'[k].page = ui.currentPage + 1
                /\ inflight'[k].page \notin {ui.issues[n].page : n \in 1..Len(ui.issues)}
         ]_vars
    /\ [][Len(inflight') < Len(inflight)
          => \A i \in 1..Len(inflight) :
                Paged(i)
                => /\ MoreResolves(i, Page(i))
                      => ui.currentPage + 1 = inflight[i].page /\ ui'.currentPage = inflight[i].page
                   /\ LoadResolves(i, Page(i)) => ui'.currentPage = 1
         ]_vars

====
